---- MODULE Spec2Model ----
(***************************************************************************)
(* A model of the BMB dashboard core: the layer store and its commit       *)
(* validation (save_layer), the chart and map render passes                *)
(* (update_figures, update_map, _add_map_layers), the dataset stores       *)
(* (load_data, load_real_time_data) and the spatial join                   *)
(* (aggregate_point_data).                                                 *)
(*                                                                         *)
(* A Dash callback receives its State arguments deserialised from the      *)
(* request, so a store changes only through the value a callback returns.  *)
(* Python dicts are modelled in insertion order: a slot of the layer store *)
(* is a sequence of layer records; a dataset store is a function of names.  *)
(***************************************************************************)
EXTENDS Integers, Sequences, FiniteSets, TLC

VARIABLES
    layer_data,   \* dcc.Store 'layer-data': slot -> ordered layers (empty = None)
    save_raise,   \* dcc.Store 'save-layer-warnings-error-store'
    graph_raise,  \* dcc.Store 'update-graph-warnings-error-store'
    map_raise,    \* dcc.Store 'update-map-warnings-error-store'
    figure,       \* the figure property of the three dcc.Graph outputs
    pending,      \* render callbacks triggered and not yet run
    trig,         \* callback_context trigger of the pending render callbacks
    op,           \* the callback that ran last
    outcome,      \* how it ended: "returned", "no_update" or "raised"
    data,         \* dcc.Store 'data': dataset name -> record
    rt_data,      \* dcc.Store 'real-time-data'
    timer_disabled, \* dcc.Interval 'real-time-trigger'.disabled
    dp_n_clicks,  \* n_clicks of 'dataplatform-laden': 0, or 1 for any positive count
    dp_form,      \* values of the inputs 'dataplatform-name' and 'dataplatform-url'
    delete_options, \* options of the dropdown 'custom-dataset-delete-name'
    dreq,         \* the data page request in flight: trigger and State values
    dpending,     \* data page callbacks triggered and not yet run
    jin,          \* input of the spatial join: [df, shapes]
    jout,         \* its result
    fin,          \* arguments of the helper function called last
    fout          \* its result

vars == <<layer_data, save_raise, graph_raise, map_raise, figure, pending, trig,
          op, outcome, data, rt_data, timer_disabled, dp_n_clicks, dp_form,
          delete_options, dreq, dpending, jin, jout, fin, fout>>

layerVars == <<layer_data, save_raise, graph_raise, map_raise, figure, pending, trig>>
dataVars == <<data, rt_data, timer_disabled, dp_n_clicks, dp_form, delete_options,
             dreq, dpending>>
joinVars == <<jin, jout, fin, fout>>

(***************************************************************************)
(* Python values                                                           *)
(***************************************************************************)
None == "<None>"
Absent == "<absent>"        \* a pattern-matching State list that is []

RECURSIVE SeqToSet(_)
SeqToSet(s) == IF s = <<>> THEN {} ELSE {Head(s)} \cup SeqToSet(Tail(s))

(***************************************************************************)
(* The layer store                                                         *)
(***************************************************************************)
Slots == <<"extra_vis_1", "extra_vis_2", "map_vis">>
ChartSlots == <<"extra_vis_1", "extra_vis_2">>
error_names == [extra_vis_1 |-> "Grafiek 1", extra_vis_2 |-> "Grafiek 2",
                map_vis |-> "Kaart visualisatie"]

DefaultLayerName == "Laag zonder naam"
AddOption == "visualisatie toevoegen"

EmptyDict == [k \in {} |-> <<>>]
EmptyRaise == [error |-> <<>>, warning |-> <<>>]

Msg(kind, fig, arg) == [kind |-> kind, fig |-> fig, arg |-> arg]

LayerNames(s) == {s[i].layer_name : i \in 1..Len(s)}
LayerIndex(s, n) == CHOOSE i \in 1..Len(s) : s[i].layer_name = n

\* d[key] = value on a Python dict: an existing key keeps its position
DictSet(s, n, layer) ==
    IF n \in LayerNames(s) THEN [s EXCEPT ![LayerIndex(s, n)] = layer]
    ELSE Append(s, layer)

\* d.pop(key)
DictPop(s, n) ==
    LET i == LayerIndex(s, n)
    IN  SubSeq(s, 1, i - 1) \o SubSeq(s, i + 1, Len(s))

SlotLayers(store, fig) == IF fig \in DOMAIN store THEN store[fig] ELSE <<>>

WithSlot(store, fig, layers) ==
    [k \in (DOMAIN store) \cup {fig} |-> IF k = fig THEN layers ELSE store[k]]

TotalLayers(store) ==
    Len(SlotLayers(store, "extra_vis_1")) + Len(SlotLayers(store, "extra_vis_2"))
    + Len(SlotLayers(store, "map_vis"))

\* the name the layer is saved under
LayerNameString(form) ==
    IF form.layer_name # "" THEN form.layer_name ELSE DefaultLayerName

\* add_vis_specific_options: the form is an edit form (name disabled, delete
\* button shown) exactly when the selection is not the add option
EditMode(add_or_edit) == add_or_edit # AddOption

\* the options of 'general-add-or-edit-dropdown'
AddEditOptions(store, fig) == {AddOption} \cup LayerNames(SlotLayers(store, fig))

\* the warnings of save_layer, in the order the code appends them
SaveWarnings(form) ==
    LET fig == form.selected_fig
        vis == form.selected_vis
    IN  (IF form.layer_name = "" THEN <<Msg("no_name", fig, DefaultLayerName)>> ELSE <<>>)
        \o (IF fig \in {"extra_vis_1", "extra_vis_2"}
               /\ vis \in {"scatter", "barchart", "grouped_barchart", "histogram", "grouped_histogram"}
            THEN (IF form.x_axis = "" THEN <<Msg("no_x_axis", fig, "")>> ELSE <<>>)
                 \o (IF vis \notin {"histogram", "grouped_histogram"} /\ form.y_axis = ""
                     THEN <<Msg("no_y_axis", fig, "")>> ELSE <<>>)
            ELSE <<>>)

\* the errors of the field checks of save_layer
FieldErrors(form) ==
    LET fig == form.selected_fig
        vis == form.selected_vis
    IN  IF fig \in {"extra_vis_1", "extra_vis_2"}
        THEN (IF vis \in {"scatter", "barchart", "grouped_barchart", "histogram", "grouped_histogram"}
              THEN (IF form.x_data = "" THEN <<Msg("no_x_data", fig, "")>> ELSE <<>>)
                   \o (IF vis \notin {"histogram", "grouped_histogram"} /\ form.y_data = ""
                       THEN <<Msg("no_y_data", fig, "")>> ELSE <<>>)
              ELSE <<>>)
             \o (IF vis = "piechart"
                 THEN (IF form.x_data = "" THEN <<Msg("no_labels", fig, "")>> ELSE <<>>)
                      \o (IF form.y_data = "" THEN <<Msg("no_values", fig, "")>> ELSE <<>>)
                 ELSE <<>>)
        ELSE (IF form.map_labels = None THEN <<Msg("no_region_code", fig, "")>> ELSE <<>>)

\* the duplicate-name check of save_layer
DuplicateErrors(form, store) ==
    LET fig == form.selected_fig
        n == LayerNameString(form)
    IN  IF n \in LayerNames(SlotLayers(store, fig)) /\ form.add_or_edit # n
        THEN <<Msg("duplicate", fig, n)>>
        ELSE <<>>

SaveErrors(form, store) == FieldErrors(form) \o DuplicateErrors(form, store)

Opt(v) == IF v = Absent THEN None ELSE v

\* the layer record save_layer builds
MakeLayer(form) ==
    [figure_name |-> form.figure_name,
     layer_name |-> LayerNameString(form),
     visualisation_type |-> form.selected_vis,
     selected_dataset |-> form.selected_data,
     x_data |-> Opt(form.x_data),
     x_axis |-> Opt(form.x_axis),
     y_data |-> Opt(form.y_data),
     y_axis |-> Opt(form.y_axis),
     mode |-> Opt(form.mode),
     map_level |-> Opt(form.map_level),
     map_data |-> Opt(form.map_data),
     map_labels |-> Opt(form.map_labels),
     aggregate_method |-> Opt(form.aggregate_method),
     colormap |-> Opt(form.colormap)]

\* the store save_layer has built when it reaches its return statements
SavedStore(form, store) ==
    LET fig == form.selected_fig
    IN  WithSlot(store, fig, DictSet(SlotLayers(store, fig), LayerNameString(form), MakeLayer(form)))

CommitOnError_Partial(form, store) == SavedStore(form, store)

\* what save_layer returns for 'layer-data' when there are errors: no_update
CommitOnError(form, store) == store

\* the value of 'layer-data' after the save branch of save_layer
CommitResult(form, store) ==
    IF Len(SaveErrors(form, store)) > 0 THEN CommitOnError(form, store)
    ELSE SavedStore(form, store)

\* the delete branch of save_layer
DeletedStore(form, store) ==
    LET fig == form.selected_fig
    IN  WithSlot(store, fig, DictPop(SlotLayers(store, fig), form.layer_name))

(***************************************************************************)
(* Tables and datasets                                                     *)
(***************************************************************************)
\* A cell: its Python type t, whether astype(float) accepts it, and for a
\* string its first two characters p and its length l; n tells values apart.
Num(n) == [t |-> "int", cast |-> TRUE, p |-> "", l |-> 0, n |-> n]
Txt(n) == [t |-> "str", cast |-> FALSE, p |-> "tx", l |-> 4, n |-> n]
Code(prefix, len, n) == [t |-> "str", cast |-> FALSE, p |-> prefix, l |-> len, n |-> n]
Onbekend == [t |-> "str", cast |-> FALSE, p |-> "on", l |-> 8, n |-> 0]

BU(n) == Code("BU", 10, n)
WK(n) == Code("WK", 8, n)

\* number of colours of basic_colors (px.colors.qualitative.Alphabet)
PaletteSize == 26

\* number of regions of the municipality in the shape files
NumRegions == 30
RegionIds == 1..NumRegions

Row(c, v) == [BU_CODE |-> c, v |-> v]
Dataset(rows) == [data |-> rows, columns |-> <<"BU_CODE", "v">>,
                  read_type |-> "Buurt", aggregated |-> FALSE]

combine_data_dicts(data1, data2) ==
    [k \in (DOMAIN data1) \cup (DOMAIN data2) |->
        IF k \in DOMAIN data2 THEN data2[k] ELSE data1[k]]

Column(rows, col) == [i \in 1..Len(rows) |-> rows[i][col]]

\* a dataset the render pass can read: present, and holding a table
Usable(all, name) == name \in DOMAIN all /\ "error" \notin DOMAIN all[name]

HasColumn(all, name, col) == col \in SeqToSet(all[name].columns)

AllCast(cells) == \A i \in 1..Len(cells) : cells[i].cast

(***************************************************************************)
(* update_figures                                                          *)
(***************************************************************************)
Trace(layer) == [name |-> layer.layer_name, type |-> layer.visualisation_type]

HasDuplicates(cells) == \E i, j \in 1..Len(cells) : i # j /\ cells[i] = cells[j]

\* one iteration of the layer loop of update_figures:
\* status "ok" (continue), "no_update" (return no_update) or "raised"
ChartLayerStep(fig, layer, all) ==
    LET ds == layer.selected_dataset
        vis == layer.visualisation_type
        bad(st) == [status |-> st, traces |-> <<>>, error |-> <<>>, warning |-> <<>>]
        ok(tr, er, wa) == [status |-> "ok", traces |-> tr, error |-> er, warning |-> wa]
        rows == all[ds].data
        has(c) == HasColumn(all, ds, c)
        typeerr == <<Msg("type_error", fig, layer.layer_name)>>
    IN  IF ~Usable(all, ds) THEN bad("raised")
        ELSE IF vis = None THEN bad("no_update")
        ELSE IF vis = "scatter"
             THEN IF has(layer.x_data) /\ has(layer.y_data)
                  THEN ok(<<Trace(layer)>>, <<>>, <<>>) ELSE bad("raised")
        ELSE IF vis \in {"barchart", "piechart"}
             THEN IF ~has(layer.x_data) THEN bad("raised")
                  ELSE LET warn == IF vis = "barchart" /\ HasDuplicates(Column(rows, layer.x_data))
                                   THEN <<Msg("stacked_bars", fig, "")>> ELSE <<>>
                       IN  IF ~has(layer.y_data) THEN bad("raised")
                           ELSE IF AllCast(Column(rows, layer.y_data))
                                THEN ok(<<Trace(layer)>>, <<>>, warn)
                                ELSE ok(<<>>, typeerr, warn)
        ELSE IF vis = "histogram"
             THEN IF has(layer.x_data) THEN ok(<<Trace(layer)>>, <<>>, <<>>) ELSE bad("raised")
        ELSE ok(<<>>, <<>>, <<>>)

RECURSIVE ChartLayersPass(_, _, _, _)
\* the layer loop over one chart slot, from accumulator acc
ChartLayersPass(fig, layers, all, acc) ==
    IF layers = <<>> \/ acc.status # "ok" THEN acc
    ELSE LET r == ChartLayerStep(fig, Head(layers), all)
         IN  ChartLayersPass(fig, Tail(layers), all,
                [status |-> r.status,
                 traces |-> acc.traces \o r.traces,
                 error |-> acc.error \o r.error,
                 warning |-> acc.warning \o r.warning])

NoFigure == <<[name |-> "<no figure>", type |-> "<none>"]>>

\* update_figures as a function of its arguments: the status, the figure
\* built for each chart slot ("no_update" for a slot without layers dict)
\* and the diagnostics
FiguresPass(store, all) ==
    LET start(e, w) == [status |-> "ok", traces |-> <<>>, error |-> e, warning |-> w]
        r1 == IF "extra_vis_1" \in DOMAIN store
              THEN ChartLayersPass("extra_vis_1", store["extra_vis_1"], all, start(<<>>, <<>>))
              ELSE start(<<>>, <<>>)
        r2 == IF r1.status # "ok" THEN r1
              ELSE IF "extra_vis_2" \in DOMAIN store
              THEN ChartLayersPass("extra_vis_2", store["extra_vis_2"], all, start(r1.error, r1.warning))
              ELSE start(r1.error, r1.warning)
    IN  [status |-> r2.status,
         built |-> [extra_vis_1 |-> IF "extra_vis_1" \in DOMAIN store THEN r1.traces ELSE NoFigure,
                    extra_vis_2 |-> IF "extra_vis_2" \in DOMAIN store THEN r2.traces ELSE NoFigure],
         raise_data |-> [error |-> r2.error, warning |-> r2.warning]]


(***************************************************************************)
(* update_map and _add_map_layers                                          *)
(***************************************************************************)
ValidLevels == {"Buurt", "Wijk", "Gemeente"}
code_start == [Buurt |-> "BU", Wijk |-> "WK", Gemeente |-> "GM"]

\* the level update_map gives the map figure wrapper
ChosenLevel(store) ==
    LET map_layers == SlotLayers(store, "map_vis")
        first == IF Len(map_layers) = 0 THEN "Buurt" ELSE map_layers[1].map_level
    IN  IF first \notin ValidLevels THEN "Buurt" ELSE first

RECURSIVE DropUnknown(_, _)
\* gdf[gdf[col] != 'onbekend']
DropUnknown(rows, col) ==
    IF rows = <<>> THEN <<>>
    ELSE IF Head(rows)[col] = Onbekend THEN DropUnknown(Tail(rows), col)
         ELSE <<Head(rows)>> \o DropUnknown(Tail(rows), col)

\* the negation of the two code_column_error branches of _add_map_layers
CodeColumnOk(codes, start) ==
    LET I == 1..Len(codes)
        isstr(i) == codes[i].t = "str"
        \* .str[:2] and .str.len() give NaN for a value that is no string
        prefixDiffers(i) == ~isstr(i) \/ codes[i].p # start
        lenDiffers(i, k) == ~isstr(i) \/ codes[i].l # k
    IN  IF \E i \in I : isstr(i)
        THEN ~( (\A i \in I : prefixDiffers(i))
                \/ ( (\A i \in I : lenDiffers(i, 10))
                     /\ (\A i \in I : lenDiffers(i, 8))
                     /\ (\A i \in I : lenDiffers(i, 6)) ) )
        ELSE FALSE

\* add_categorical_level_choroplethmapbox: per region the maximum of the
\* category column, merged on the shapes of the map; the distinct categories
RegionCategory(rows, key, cat, id) ==
    LET ns == {rows[i][cat].n : i \in {j \in 1..Len(rows) : rows[j][key].n = id}}
    IN  CHOOSE m \in ns : \A k \in ns : k <= m

UniqueCategories(rows, key, cat) ==
    {RegionCategory(rows, key, cat, id) :
        id \in {rows[i][key].n : i \in 1..Len(rows)} \cap RegionIds}

\* np.unique(data): the distinct categories in ascending order
SortedCategories(rows, key, cat) ==
    LET cs == UniqueCategories(rows, key, cat)
    IN  [i \in 1..Cardinality(cs) |->
            CHOOSE c \in cs : Cardinality({d \in cs : d < c}) = i - 1]

\* the sub-layer of one category: the regions of the category with value 0
\* under a colour scale of one palette colour
CategoryTrace(layer, rows, category, colour) ==
    [name |-> layer.layer_name, type |-> layer.visualisation_type,
     category |-> category,
     locations |-> {id \in {rows[i][layer.map_labels].n : i \in 1..Len(rows)} \cap RegionIds :
                       RegionCategory(rows, layer.map_labels, layer.map_data, id) = category},
     z |-> 0,
     colorscale |-> <<colour, colour>>]

\* the error _add_map_layers makes of the AssertionError of the palette
PaletteMsg(n_categories, colors) ==
    [kind |-> "palette", fig |-> "map_vis", arg |-> "",
     n_categories |-> n_categories, colors |-> colors]

\* one iteration of the layer loop of _add_map_layers. status: "ok"
\* (continue), "assert" (AssertionError leaves the loop) or "raised"
\* (another exception leaves update_map)
MapLayerStep(layer, all, level, category_count) ==
    LET ds == layer.selected_dataset
        vis == layer.visualisation_type
        res(st, tr, er, wa, cc) == [status |-> st, traces |-> tr, error |-> er,
                                    warning |-> wa, category_count |-> cc]
        raised == res("raised", <<>>, <<>>, <<>>, category_count)
        has(c) == HasColumn(all, ds, c)
        gdf == DropUnknown(all[ds].data, layer.map_labels)
        codeerr == <<Msg("code_column", "map_vis", ds)>>
        typeerr == <<Msg("type_error", "map_vis", layer.layer_name)>>
    IN  IF ~Usable(all, ds) THEN raised
        ELSE IF ~has(layer.map_labels) THEN raised
        ELSE IF layer.map_level # level
             THEN res("assert", <<>>, <<Msg("level_mismatch", "map_vis", ds)>>, <<>>, category_count)
        ELSE IF ~CodeColumnOk(Column(gdf, layer.map_labels), code_start[layer.map_level])
             THEN res("ok", <<>>, codeerr, <<>>, category_count)
        ELSE IF vis = None THEN res("ok", <<>>, <<>>, <<>>, category_count)
        ELSE IF vis = "choroplethmapbox"
             THEN IF ~has(layer.map_data) THEN raised
                  ELSE IF layer.aggregate_method # "frequency" /\ ~AllCast(Column(gdf, layer.map_data))
                       THEN res("ok", <<>>, typeerr, <<>>, category_count)
                       ELSE res("ok", <<Trace(layer)>>, <<>>, <<>>, category_count)
        ELSE IF vis = "categorical_choroplethmapbox"
             THEN LET warn == IF HasDuplicates(Column(gdf, layer.map_labels))
                              THEN <<Msg("multiple_categories", "map_vis", layer.layer_name)>>
                              ELSE <<>>
                  IN  IF ~has(layer.map_data) THEN raised
                      ELSE LET cats == SortedCategories(gdf, layer.map_labels, layer.map_data)
                               n == Len(cats)
                               room == PaletteSize - category_count
                               sub(i) == CategoryTrace(layer, gdf, cats[i], category_count + i)
                           IN  IF n > room
                               THEN res("ok", [i \in 1..room |-> sub(i)],
                                        <<PaletteMsg(n, PaletteSize)>>, warn, PaletteSize)
                               ELSE res("ok", [i \in 1..n |-> sub(i)], <<>>, warn,
                                        category_count + n)
        ELSE IF vis = "bubble_mapbox"
             THEN IF ~has(layer.map_data) THEN raised
                  ELSE IF layer.aggregate_method # "frequency" /\ ~AllCast(Column(gdf, layer.map_data))
                       THEN raised
                  ELSE IF \E i \in 1..Len(gdf) : gdf[i][layer.map_labels].n \notin RegionIds
                       THEN raised
                       ELSE res("ok", <<Trace(layer)>>, <<>>, <<>>, category_count)
        ELSE res("ok", <<>>, <<>>, <<>>, category_count)

RECURSIVE AddMapLayers(_, _, _, _)
\* the loop of _add_map_layers from accumulator acc
AddMapLayers(layers, all, level, acc) ==
    IF layers = <<>> \/ acc.status # "ok" THEN acc
    ELSE LET r == MapLayerStep(Head(layers), all, level, acc.category_count)
         IN  AddMapLayers(Tail(layers), all, level,
                [status |-> r.status,
                 traces |-> acc.traces \o r.traces,
                 error |-> acc.error \o r.error,
                 warning |-> acc.warning \o r.warning,
                 category_count |-> r.category_count])

\* the background figure of update_map: gemeente background, ringbaan, spoor
Background(level) == <<[name |-> "<background>", type |-> level]>>

\* update_map past its early return, as a function of its arguments. An
\* AssertionError is caught and reported; raise_data was appended in place
MapPass(store, all) ==
    LET level == ChosenLevel(store)
        r == AddMapLayers(SlotLayers(store, "map_vis"), all, level,
                 [status |-> "ok", traces |-> <<>>, error |-> <<>>, warning |-> <<>>,
                  category_count |-> 0])
    IN  [status |-> IF r.status = "raised" THEN "raised" ELSE "ok",
         built |-> Background(level) \o r.traces,
         raise_data |-> [error |-> r.error, warning |-> r.warning]]


(***************************************************************************)
(* The interaction page: requests and callbacks                            *)
(***************************************************************************)
\* bound on the number of layers in the store
MaxLayers == 2

\* a number of categories that fits the palette once and not twice
HalfPalette == (PaletteSize \div 2) + 1

\* the datasets the interaction page works on: numbers per region, a table
\* without region codes, text per region, a code column that mixes a code
\* with another string, several categories within a region, and tables of
\* one category per region
Catalogue ==
    [ok |-> Dataset(<<Row(BU(1), Num(5)), Row(BU(1), Num(7)), Row(BU(2), Num(3))>>),
     bad |-> Dataset(<<Row(Num(1), Num(5)), Row(Num(2), Num(3))>>),
     text |-> Dataset(<<Row(BU(1), Txt(1)), Row(BU(2), Txt(2))>>),
     mixed |-> Dataset(<<Row(BU(1), Num(5)), Row(Code("XX", 5, 2), Num(3))>>),
     cats |-> Dataset(<<Row(BU(1), Txt(1)), Row(BU(1), Txt(1)), Row(BU(1), Txt(2)),
                        Row(BU(2), Txt(1))>>),
     half |-> Dataset([i \in 1..HalfPalette |-> Row(BU(i), Txt(i))]),
     many |-> Dataset([i \in 1..(PaletteSize + 1) |-> Row(BU(i), Txt(i))])]

ChartForm(vis, ds, x, xa) ==
    [selected_vis |-> vis, selected_data |-> ds,
     x_data |-> x, x_axis |-> xa, y_data |-> "v", y_axis |-> "Y", mode |-> Absent,
     map_level |-> Absent, map_data |-> Absent, map_labels |-> Absent,
     aggregate_method |-> Absent, colormap |-> Absent]

MapForm(vis, ds, level, labels) ==
    [selected_vis |-> vis, selected_data |-> ds,
     x_data |-> Absent, x_axis |-> Absent, y_data |-> Absent, y_axis |-> Absent,
     mode |-> Absent,
     map_level |-> level, map_data |-> "v", map_labels |-> labels,
     aggregate_method |-> "mean", colormap |-> "viridis"]

\* chart forms: a complete one, one whose y column is text and whose x axis
\* title is empty, one without x column
CleanChart == ChartForm("scatter", "ok", "BU_CODE", "X")
TextBarChart == ChartForm("barchart", "text", "BU_CODE", "")
NoXChart == ChartForm("scatter", "ok", "", "X")

\* map forms: a complete one, one at another level, one whose level was never
\* chosen, one on a dataset without region codes, one whose region-code
\* dropdown was cleared
CleanMap == MapForm("choroplethmapbox", "ok", "Buurt", "BU_CODE")
WijkMap == MapForm("choroplethmapbox", "ok", "Wijk", "BU_CODE")
NoLevelMap == MapForm("choroplethmapbox", "ok", "", "BU_CODE")
BadCodeMap == MapForm("choroplethmapbox", "bad", "Buurt", "BU_CODE")
NoCodeMap == MapForm("choroplethmapbox", "ok", "Buurt", None)

\* a map form of level Buurt with a given reducer
ReducerForm(vis, ds, method) ==
    [MapForm(vis, ds, "Buurt", "BU_CODE") EXCEPT !.aggregate_method = method]

\* the form of a categorical map has no reducer and no colour map
CategoricalForm(ds) ==
    [MapForm("categorical_choroplethmapbox", ds, "Buurt", "BU_CODE")
        EXCEPT !.aggregate_method = Absent, !.colormap = Absent]

\* a scatter whose y column is text
TextScatter == ChartForm("scatter", "text", "BU_CODE", "X")

\* numeric maps: the reducer dropdown left empty, a text column under the
\* mean, bubbles on numbers and on text, a code column that mixes codes
EmptyReducerMap == ReducerForm("choroplethmapbox", "ok", "")
TextChoropleth == ReducerForm("choroplethmapbox", "text", "mean")
CleanBubble == ReducerForm("bubble_mapbox", "ok", "mean")
TextBubble == ReducerForm("bubble_mapbox", "text", "mean")
MixedCodeMap == ReducerForm("choroplethmapbox", "mixed", "mean")

\* categorical maps
CategoryMap == CategoricalForm("cats")
HalfPaletteMap == CategoricalForm("half")
ManyCategoriesMap == CategoricalForm("many")

\* the inputs of the store specification
StoreInputs ==
    [figs |-> {"extra_vis_1", "extra_vis_2", "map_vis"},
     names |-> [fig \in SeqToSet(Slots) |-> {"", "a", AddOption}],
     chart |-> {CleanChart, TextBarChart, NoXChart},
     map |-> {CleanMap, WijkMap, BadCodeMap, NoCodeMap}]

\* the inputs of the render specification
RenderInputs ==
    [figs |-> {"extra_vis_1", "extra_vis_2", "map_vis"},
     names |-> [fig \in SeqToSet(Slots) |-> IF fig = "map_vis" THEN {"", "a"} ELSE {"a"}],
     chart |-> {CleanChart, TextBarChart},
     map |-> {CleanMap, NoLevelMap, BadCodeMap}]

\* the inputs of the specification of the numeric layer kinds
KindInputs ==
    [figs |-> {"extra_vis_1", "map_vis"},
     names |-> [fig \in SeqToSet(Slots) |-> IF fig = "map_vis" THEN {"a", "b"} ELSE {"a"}],
     chart |-> {CleanChart, TextScatter},
     map |-> {EmptyReducerMap, TextChoropleth, CleanBubble, TextBubble, MixedCodeMap}]

\* the inputs of the specification of the categorical maps
CategoryInputs ==
    [figs |-> {"map_vis"},
     names |-> [fig \in SeqToSet(Slots) |-> {"a", "b"}],
     chart |-> {CleanChart},
     map |-> {CategoryMap, HalfPaletteMap, ManyCategoriesMap}]

Fields(in, fig) == IF fig = "map_vis" THEN in.map ELSE in.chart

Form(fig, name, sel, f) ==
    [selected_fig |-> fig, figure_name |-> "title", layer_name |-> name, add_or_edit |-> sel,
     selected_vis |-> f.selected_vis, selected_data |-> f.selected_data,
     x_data |-> f.x_data, x_axis |-> f.x_axis, y_data |-> f.y_data, y_axis |-> f.y_axis,
     mode |-> f.mode, map_level |-> f.map_level, map_data |-> f.map_data,
     map_labels |-> f.map_labels, aggregate_method |-> f.aggregate_method,
     colormap |-> f.colormap]

\* The forms add_vis_specific_options gives the user for slot fig: for the
\* add option an empty form (any name can be typed), for an existing layer
\* its edit form, whose name input is disabled and holds the layer's name.
SlotForms(in, st, fig) ==
    {Form(fig, IF EditMode(sel) THEN sel ELSE name, sel, f) :
        sel \in AddEditOptions(st, fig), name \in in.names[fig], f \in Fields(in, fig)}

\* the store is kept within MaxLayers layers
Fits(st, form) ==
    \/ TotalLayers(st) < MaxLayers
    \/ LayerNameString(form) \in LayerNames(SlotLayers(st, form.selected_fig))

\* the forms the user can submit with the save button
SaveForms(in, st) ==
    {form \in UNION {SlotForms(in, st, fig) : fig \in in.figs} : Fits(st, form)}

\* the edit forms, whose delete button the user can click
DeleteForms(in, st) ==
    UNION {{[selected_fig |-> fig, layer_name |-> sel, add_or_edit |-> sel] :
               sel \in {o \in AddEditOptions(st, fig) : EditMode(o)}} : fig \in in.figs}

Idle == pending = {}

\* callback save_layer, triggered by the save button with the form as State
SaveLayerSave(form) ==
    /\ LET errors == SaveErrors(form, layer_data)
       IN  /\ layer_data' = CommitResult(form, layer_data)
           /\ save_raise' = [error |-> errors, warning |-> SaveWarnings(form)]
           /\ pending' = IF Len(errors) > 0 THEN pending ELSE {"update_figures", "update_map"}
           /\ trig' = IF Len(errors) > 0 THEN trig ELSE "layer-data"
    /\ op' = "save_layer"
    /\ outcome' = "returned"
    /\ UNCHANGED <<graph_raise, map_raise, figure>>
    /\ UNCHANGED <<dataVars, joinVars>>

\* callback save_layer, triggered by the delete button of an edit form
SaveLayerDelete(form) ==
    /\ form.layer_name \in LayerNames(SlotLayers(layer_data, form.selected_fig))
    /\ layer_data' = DeletedStore(form, layer_data)
    /\ save_raise' = EmptyRaise
    /\ pending' = {"update_figures", "update_map"}
    /\ trig' = "layer-data"
    /\ op' = "save_layer_delete"
    /\ outcome' = "returned"
    /\ UNCHANGED <<graph_raise, map_raise, figure>>
    /\ UNCHANGED <<dataVars, joinVars>>

Save(in) == \E form \in SaveForms(in, layer_data) : SaveLayerSave(form)
Delete(in) == \E form \in DeleteForms(in, layer_data) : SaveLayerDelete(form)

\* The page is (re)loaded: the render callbacks make their initial call.
PageLoad ==
    /\ Idle
    /\ pending' = {"update_figures", "update_map"}
    /\ trig' = "No trigger"
    /\ op' = "display_page"
    /\ outcome' = "returned"
    /\ UNCHANGED <<layer_data, save_raise, graph_raise, map_raise, figure>>
    /\ UNCHANGED <<dataVars, joinVars>>

\* the two figure outputs update_figures returns without errors
FiguresOutput(fig, built) ==
    [fig EXCEPT !.extra_vis_1 = IF built.extra_vis_1 = NoFigure THEN @ ELSE built.extra_vis_1,
                !.extra_vis_2 = IF built.extra_vis_2 = NoFigure THEN @ ELSE built.extra_vis_2]

FiguresOnError_Update(fig, built) == FiguresOutput(fig, built)

\* the figure outputs update_figures returns with errors: no_update
FiguresOnError(fig, built) == fig

\* callback update_figures
update_figures ==
    /\ "update_figures" \in pending
    /\ pending' = pending \ {"update_figures"}
    /\ op' = "update_figures"
    /\ LET r == FiguresPass(layer_data, combine_data_dicts(data, rt_data))
       IN  IF layer_data = EmptyDict \/ r.status = "no_update"
           THEN outcome' = "no_update" /\ UNCHANGED <<figure, graph_raise>>
           ELSE IF r.status = "raised"
           THEN outcome' = "raised" /\ UNCHANGED <<figure, graph_raise>>
           ELSE /\ outcome' = "returned"
                /\ graph_raise' = r.raise_data
                /\ figure' = IF Len(r.raise_data.error) > 0
                             THEN FiguresOnError(figure, r.built)
                             ELSE FiguresOutput(figure, r.built)
    /\ UNCHANGED <<layer_data, save_raise, map_raise, trig>>
    /\ UNCHANGED <<dataVars, joinVars>>

\* the map figure output update_map returns with errors: no_update
MapOnError(fig, built) == fig

\* callback update_map
update_map ==
    /\ "update_map" \in pending
    /\ pending' = pending \ {"update_map"}
    /\ op' = "update_map"
    /\ LET r == MapPass(layer_data, combine_data_dicts(data, rt_data))
       IN  IF trig = "No trigger" /\ SlotLayers(layer_data, "map_vis") = <<>>
           THEN /\ outcome' = "initial"
                /\ figure' = [figure EXCEPT !.map_vis = Background(ChosenLevel(layer_data))]
                /\ UNCHANGED map_raise
           ELSE IF r.status = "raised"
           THEN outcome' = "raised" /\ UNCHANGED <<figure, map_raise>>
           ELSE /\ outcome' = "returned"
                /\ map_raise' = r.raise_data
                /\ figure' = IF Len(r.raise_data.error) > 0
                             THEN MapOnError(figure, r.built)
                             ELSE [figure EXCEPT !.map_vis = r.built]
    /\ UNCHANGED <<layer_data, save_raise, graph_raise, trig>>
    /\ UNCHANGED <<dataVars, joinVars>>

InitLayer ==
    /\ layer_data = EmptyDict
    /\ save_raise = EmptyRaise
    /\ graph_raise = EmptyRaise
    /\ map_raise = EmptyRaise
    /\ figure = [extra_vis_1 |-> NoFigure, extra_vis_2 |-> NoFigure, map_vis |-> NoFigure]
    /\ pending = {}
    /\ trig = "No trigger"
    /\ op = "init"
    /\ outcome = "returned"

\* the data page and the spatial join before any request
InitRest ==
    /\ rt_data = EmptyDict
    /\ timer_disabled = TRUE
    /\ dp_n_clicks = 0
    /\ dp_form = [name |-> None, url |-> None]
    /\ delete_options = {}
    /\ dreq = [trigger |-> "No trigger"]
    /\ dpending = {}
    /\ jin = <<>>
    /\ jout = <<>>
    /\ fin = <<>>
    /\ fout = <<>>

\* the interaction page opened on a session that holds the datasets
Init ==
    /\ InitLayer
    /\ InitRest
    /\ data = Catalogue

\* The layer store under the save and delete requests of the user.
Next ==
    \/ Save(StoreInputs)
    \/ Delete(StoreInputs)

Spec == Init /\ [][Next]_vars

\* The layer store together with the render callbacks its changes trigger;
\* the user acts when the callbacks of the previous request have run.
NextRender ==
    \/ Idle /\ Save(RenderInputs)
    \/ Idle /\ Delete(RenderInputs)
    \/ PageLoad
    \/ update_figures
    \/ update_map

SpecRender == Init /\ [][NextRender]_vars

\* The render callbacks on charts and numeric maps of every kind.
NextKinds ==
    \/ Idle /\ Save(KindInputs)
    \/ Idle /\ Delete(KindInputs)
    \/ PageLoad
    \/ update_figures
    \/ update_map

SpecKinds == Init /\ [][NextKinds]_vars

\* The render callbacks on categorical maps.
NextCategories ==
    \/ Idle /\ Save(CategoryInputs)
    \/ Idle /\ Delete(CategoryInputs)
    \/ PageLoad
    \/ update_figures
    \/ update_map

SpecCategories == Init /\ [][NextCategories]_vars

(***************************************************************************)
(* The dataset page: load_data, load_real_time_data and the callbacks      *)
(* around them                                                             *)
(***************************************************************************)
StandardDataset == "meet je stad"
UnnamedDataset == "Dataset zonder naam"
UnnamedDataset2 == "Dataset zonder naam 2"
Hang == "<loop without end>"

\* an uploaded file: its extension, its column headers, and whether merging
\* its code column with the region shapes leaves rows
GoodFile == [ext |-> "csv", headers |-> {"latitude", "longitude", "geometry", "code"},
             merges |-> TRUE]
BareFile == [ext |-> "csv", headers |-> {"code"}, merges |-> FALSE]
PdfFile == [ext |-> "pdf", headers |-> {"latitude", "longitude", "geometry", "code"},
            merges |-> TRUE]

\* read_file with make_geo: "ok" or the exception it raises
read_file(file, read_type) ==
    IF file.ext \notin {"xlsx", "csv", "txt"} THEN "IOError"
    ELSE IF read_type = "latlong"
         THEN IF {"latitude", "longitude"} \subseteq file.headers THEN "ok" ELSE "ValueError"
    ELSE IF read_type = "geometry"
         THEN IF "geometry" \in file.headers THEN "ok" ELSE "ValueError"
    ELSE IF file.merges THEN "ok" ELSE "ValueError"

\* load_dataplatform_data: None has no 'in', another site fails the assert
GoodUrl == "https://ckan.dataplatform.nl/dataset/x.json"
load_dataplatform_data(url) == IF url = GoodUrl THEN "ok" ELSE "raised"

TableRows == <<Row(BU(1), Num(5))>>

CustomRecord(read_type) ==
    [data |-> TableRows, columns |-> <<"BU_CODE", "v">>, read_type |-> read_type,
     aggregated |-> FALSE]

DataplatformRecord(url) ==
    [data |-> TableRows, columns |-> <<"BU_CODE", "v">>, url |-> url,
     read_type |-> "latlong", aggregated |-> FALSE]

\* the record load_data writes when read_file raises ValueError
ErrorRecord(read_type) ==
    [data |-> <<>>, error |-> IF read_type # "latlong" THEN "link" ELSE "load"]

MjsRecord(level) ==
    [data |-> TableRows, columns |-> <<"BU_CODE", "v">>, region_type |-> level]

\* _get_code and the name column that goes with it
LevelColumns == [Buurt |-> <<"BU_CODE", "BU_NAAM">>, Wijk |-> <<"WK_CODE", "WK_NAAM">>,
                 Gemeente |-> <<"GM_CODE", "GM_NAAM">>]

\* the record after the aggregate branch of load_data: the table of
\* aggregate_data, its columns, aggregated = True
AggregatedRecord(rec, level) ==
    [rec EXCEPT !.aggregated = TRUE,
                !.columns = @ \o SelectSeq(LevelColumns[level], LAMBDA c : c \notin SeqToSet(@))]

Put(d, n, rec) == [k \in (DOMAIN d) \cup {n} |-> IF k = n THEN rec ELSE d[k]]
Remove(d, n) == [k \in (DOMAIN d) \ {n} |-> d[k]]

\* the name a dataset without name gets: the while loop never changes
\* iterator, so it ends only when 'Dataset zonder naam 2' is free
ResolveName(name, blank, d) ==
    IF name \notin blank THEN name
    ELSE IF UnnamedDataset \notin DOMAIN d THEN UnnamedDataset
    ELSE IF UnnamedDataset2 \notin DOMAIN d THEN UnnamedDataset2
    ELSE Hang

Step(status, d) == [status |-> status, data |-> d]

\* the dataplatform branch: its condition is
\* dp_n_clicks > 0 or (url_n_submits > 0 and trigger in ...)
DataplatformStep(req, d) ==
    IF req.dp_n_clicks > 0
    THEN LET n == ResolveName(req.dp.name, {None, ""}, d)
         IN  IF n = Hang THEN Step("hang", d)
             ELSE IF load_dataplatform_data(req.dp.url) # "ok" THEN Step("raised", d)
             ELSE Step("ok", Put(d, n, DataplatformRecord(req.dp.url)))
    ELSE Step("ok", d)

\* the aggregate branch
AggregateStep(req, d) ==
    IF req.trigger = "data-aggregate-button"
    THEN IF req.aggregate_name \notin DOMAIN d THEN Step("raised", d)
         ELSE IF "error" \in DOMAIN d[req.aggregate_name] THEN Step("raised", d)
         ELSE Step("ok", Put(d, req.aggregate_name,
                             AggregatedRecord(d[req.aggregate_name], req.aggregate_level)))
    ELSE Step("ok", d)

\* the custom dataset branch; "return" is its early return with the error record
CustomStep(req, d) ==
    IF req.trigger = "ed-load-button"
    THEN LET n == ResolveName(req.dataset_name, {""}, d)
             read == read_file(req.file, req.read_type)
         IN  IF n = Hang THEN Step("hang", d)
             ELSE IF read = "ValueError" THEN Step("return", Put(d, n, ErrorRecord(req.read_type)))
             ELSE IF read # "ok" THEN Step("raised", d)
             ELSE Step("ok", Put(d, n, CustomRecord(req.read_type)))
    ELSE Step("ok", d)

\* the delete branch: data.pop(delete_name)
DeleteStep(req, d) ==
    IF req.trigger = "ed-delete-button-yes"
    THEN IF req.delete_name \in DOMAIN d THEN Step("ok", Remove(d, req.delete_name))
         ELSE Step("raised", d)
    ELSE Step("ok", d)

\* load_data as a function of its arguments: "ok" with the returned store,
\* "raised", or "hang"
LoadDataResult(req, d) ==
    LET r1 == DataplatformStep(req, d)
        r2 == IF r1.status = "ok" THEN AggregateStep(req, r1.data) ELSE r1
        r3 == IF r2.status = "ok" THEN CustomStep(req, r2.data) ELSE r2
        r4 == IF r3.status = "ok" THEN DeleteStep(req, r3.data) ELSE r3
    IN  IF r4.status = "return" THEN Step("ok", r4.data) ELSE r4

\* the Input and State values a data page request carries
Request(trigger) ==
    [trigger |-> trigger, dp_n_clicks |-> dp_n_clicks, dp |-> dp_form,
     mjs_location_type |-> None, aggregate_name |-> None, aggregate_level |-> None,
     dataset_name |-> None, file |-> None, read_type |-> None, delete_name |-> None]

DataIdle == dpending = {}

NoRequest == [trigger |-> "No trigger"]

\* the request stays in flight until the callbacks it triggers have run
Served(req, left) == IF left \cap {"load_data", "load_real_time_data"} = {} THEN NoRequest ELSE req

DataFrame == UNCHANGED <<layerVars, joinVars>>

\* the user fills in the dataplatform name and url
TypeDataplatform ==
    /\ DataIdle
    /\ dp_form' = [name |-> "a", url |-> GoodUrl]
    /\ op' = "type"
    /\ outcome' = "returned"
    /\ UNCHANGED <<data, rt_data, timer_disabled, dp_n_clicks, delete_options, dreq, dpending>>
    /\ DataFrame

\* 'mjs-load-button'
ClickMjsLoad ==
    /\ DataIdle
    /\ \E level \in {"Buurt"} :
          dreq' = [Request("mjs-load-button") EXCEPT !.mjs_location_type = level]
    /\ dpending' = {"load_data", "load_real_time_data"}
    /\ op' = "click"
    /\ outcome' = "returned"
    /\ UNCHANGED <<data, rt_data, timer_disabled, dp_n_clicks, dp_form, delete_options>>
    /\ DataFrame

\* 'dataplatform-laden'
ClickDataplatform ==
    /\ DataIdle
    /\ dp_n_clicks' = 1
    /\ dreq' = [Request("dataplatform-laden") EXCEPT !.dp_n_clicks = 1]
    /\ dpending' = {"load_data", "reset_options"}
    /\ op' = "click"
    /\ outcome' = "returned"
    /\ UNCHANGED <<data, rt_data, timer_disabled, dp_form, delete_options>>
    /\ DataFrame

\* 'data-aggregate-button': the dropdown offers the names of the data store
ClickAggregate ==
    /\ DataIdle
    /\ \E name \in DOMAIN data, level \in {"Buurt"} :
          dreq' = [Request("data-aggregate-button") EXCEPT !.aggregate_name = name,
                                                           !.aggregate_level = level]
    /\ dpending' = {"load_data"}
    /\ op' = "click"
    /\ outcome' = "returned"
    /\ UNCHANGED <<data, rt_data, timer_disabled, dp_n_clicks, dp_form, delete_options>>
    /\ DataFrame

\* the files and location types of the custom dataset form
CustomForms ==
    {<<GoodFile, "latlong">>, <<GoodFile, "Buurt">>, <<BareFile, "latlong">>,
     <<BareFile, "geometry">>, <<BareFile, "Buurt">>, <<PdfFile, "latlong">>}

\* 'ed-load-button'
ClickLoadCustom ==
    /\ DataIdle
    /\ \E name \in {"", "a"}, form \in CustomForms :
          LET file == form[1]
              read_type == form[2]
          IN
          dreq' = [Request("ed-load-button") EXCEPT !.dataset_name = name, !.file = file,
                                                    !.read_type = read_type]
    /\ dpending' = {"load_data"}
    /\ op' = "click"
    /\ outcome' = "returned"
    /\ UNCHANGED <<data, rt_data, timer_disabled, dp_n_clicks, dp_form, delete_options>>
    /\ DataFrame

\* 'ed-delete-button-yes', with a name chosen from the delete dropdown
ClickDeleteYes ==
    /\ DataIdle
    /\ \E name \in delete_options :
          dreq' = [Request("ed-delete-button-yes") EXCEPT !.delete_name = name]
    /\ dpending' = {"load_data", "load_real_time_data", "change_deletable_datasets"}
    /\ op' = "click"
    /\ outcome' = "returned"
    /\ UNCHANGED <<data, rt_data, timer_disabled, dp_n_clicks, dp_form, delete_options>>
    /\ DataFrame

\* dcc.Interval 'real-time-trigger' fires
IntervalTick ==
    /\ DataIdle
    /\ ~timer_disabled
    /\ dreq' = Request("real-time-trigger")
    /\ dpending' = {"load_real_time_data"}
    /\ op' = "tick"
    /\ outcome' = "returned"
    /\ UNCHANGED <<data, rt_data, timer_disabled, dp_n_clicks, dp_form, delete_options>>
    /\ DataFrame

\* callback load_data; a store it returns triggers the callbacks that have
\* 'data' as Input
load_data ==
    /\ "load_data" \in dpending
    /\ LET r == LoadDataResult(dreq, data)
       IN  /\ data' = IF r.status = "ok" THEN r.data ELSE data
           /\ outcome' = IF r.status = "ok" THEN "returned" ELSE r.status
           /\ dpending' = (dpending \ {"load_data"})
                          \cup (IF r.status = "ok" THEN {"change_deletable_datasets"} ELSE {})
    /\ dreq' = Served(dreq, dpending \ {"load_data"})
    /\ op' = "load_data"
    /\ UNCHANGED <<rt_data, timer_disabled, dp_n_clicks, dp_form, delete_options>>
    /\ DataFrame

RealTimeResult_PopDefault(req, d) ==
    IF req.trigger = "ed-delete-button-yes"
    THEN [status |-> "returned",
          data |-> IF req.delete_name \in DOMAIN d THEN Remove(d, req.delete_name) ELSE d,
          disabled |-> TRUE]
    ELSE IF req.trigger = "mjs-load-button"
    THEN [status |-> "returned", data |-> Put(d, StandardDataset, MjsRecord(req.mjs_location_type)),
          disabled |-> FALSE]
    ELSE IF req.trigger = "real-time-trigger"
    THEN IF DOMAIN d = {} THEN [status |-> "no_update", data |-> d, disabled |-> TRUE]
         ELSE IF StandardDataset \notin DOMAIN d THEN [status |-> "raised", data |-> d, disabled |-> TRUE]
         ELSE [status |-> "returned",
               data |-> Put(d, StandardDataset, MjsRecord(d[StandardDataset].region_type)),
               disabled |-> FALSE]
    ELSE [status |-> "no_update", data |-> d, disabled |-> TRUE]

\* load_real_time_data as a function of its arguments
RealTimeResult(req, d) ==
    IF req.trigger = "ed-delete-button-yes"
    THEN IF req.delete_name \in DOMAIN d
         THEN [status |-> "returned", data |-> Remove(d, req.delete_name), disabled |-> TRUE]
         ELSE [status |-> "raised", data |-> d, disabled |-> TRUE]
    ELSE IF req.trigger = "mjs-load-button"
    THEN [status |-> "returned", data |-> Put(d, StandardDataset, MjsRecord(req.mjs_location_type)),
          disabled |-> FALSE]
    ELSE IF req.trigger = "real-time-trigger"
    THEN IF DOMAIN d = {} THEN [status |-> "no_update", data |-> d, disabled |-> TRUE]
         ELSE IF StandardDataset \notin DOMAIN d THEN [status |-> "raised", data |-> d, disabled |-> TRUE]
         ELSE [status |-> "returned",
               data |-> Put(d, StandardDataset, MjsRecord(d[StandardDataset].region_type)),
               disabled |-> FALSE]
    ELSE [status |-> "no_update", data |-> d, disabled |-> TRUE]

\* callback load_real_time_data
load_real_time_data ==
    /\ "load_real_time_data" \in dpending
    /\ dpending' = dpending \ {"load_real_time_data"}
    /\ LET r == RealTimeResult(dreq, rt_data)
       IN  /\ outcome' = r.status
           /\ IF r.status = "returned"
              THEN rt_data' = r.data /\ timer_disabled' = r.disabled
              ELSE UNCHANGED <<rt_data, timer_disabled>>
    /\ dreq' = Served(dreq, dpending \ {"load_real_time_data"})
    /\ op' = "load_real_time_data"
    /\ UNCHANGED <<data, dp_n_clicks, dp_form, delete_options>>
    /\ DataFrame

\* callback change_deletable_datasets
change_deletable_datasets ==
    /\ "change_deletable_datasets" \in dpending
    /\ dpending' = dpending \ {"change_deletable_datasets"}
    /\ delete_options' = DOMAIN combine_data_dicts(data, rt_data)
    /\ op' = "change_deletable_datasets"
    /\ outcome' = "returned"
    /\ UNCHANGED <<data, rt_data, timer_disabled, dp_n_clicks, dp_form, dreq>>
    /\ DataFrame

\* callback reset_options: the dataplatform inputs are emptied after a click
reset_options ==
    /\ "reset_options" \in dpending
    /\ dpending' = dpending \ {"reset_options"}
    /\ dp_form' = [name |-> None, url |-> None]
    /\ op' = "reset_options"
    /\ outcome' = "returned"
    /\ UNCHANGED <<data, rt_data, timer_disabled, dp_n_clicks, delete_options, dreq>>
    /\ DataFrame

\* the data page of a new session
InitData ==
    /\ InitLayer
    /\ InitRest
    /\ data = EmptyDict

NextData ==
    \/ TypeDataplatform
    \/ ClickMjsLoad
    \/ ClickDataplatform
    \/ ClickAggregate
    \/ ClickLoadCustom
    \/ ClickDeleteYes
    \/ IntervalTick
    \/ load_data
    \/ load_real_time_data
    \/ change_deletable_datasets
    \/ reset_options

SpecData == InitData /\ [][NextData]_vars

(***************************************************************************)
(* The spatial join: aggregate_point_data and _add_level_column            *)
(***************************************************************************)
\* bound on the number of rows of a joined table
MaxRows == 2

NaN == "NaN"

\* the shape set: regions in shape-set order, as rectangles that overlap
\* between x = 2 and x = 4
Shapes ==
    <<[code |-> "BU1", name |-> "Noord", x1 |-> 0, x2 |-> 4, y1 |-> 0, y2 |-> 2],
      [code |-> "BU2", name |-> "Zuid", x1 |-> 2, x2 |-> 6, y1 |-> 0, y2 |-> 2]>>

\* shapely contains: the point is in the interior of the region
Contains(shape, punt) ==
    /\ shape.x1 < punt.x /\ punt.x < shape.x2
    /\ shape.y1 < punt.y /\ punt.y < shape.y2

\* _add_level_column: code and name of the first region that contains the
\* point of the row, or the sentinel pair
add_level_column(row, shapes) ==
    LET selectie == {k \in 1..Len(shapes) : Contains(shapes[k], row.geometry)}
    IN  IF selectie = {} THEN <<"onbekend", "onbekend">>
        ELSE LET k == CHOOSE m \in selectie : \A o \in selectie : m <= o
             IN  <<shapes[k].code, shapes[k].name>>

\* aggregate_point_data. code_column is computed by position; temp_df has the
\* index 0..n-1, and geo_df[code] = temp_df[code] gives the row with index
\* label L the value temp_df has at label L, or NaN when it has none
aggregate_point_data(df, shapes) ==
    LET n == Len(df.rows)
        code_column == [i \in 1..n |-> add_level_column(df.rows[i], shapes)]
        aligned(i, c) == LET L == df.rows[i].label
                         IN  IF L \in 0..(n - 1) THEN code_column[L + 1][c] ELSE NaN
        geo_columns == IF df.type = "DataFrame" THEN df.columns \o <<"geometry">>
                       ELSE df.columns
    IN  [type |-> "GeoDataFrame",
         columns |-> geo_columns \o <<"BU_CODE", "BU_NAAM">>,
         rows |-> [i \in 1..n |-> [label |-> df.rows[i].label,
                                   geometry |-> df.rows[i].geometry,
                                   v |-> df.rows[i].v,
                                   BU_CODE |-> aligned(i, 1),
                                   BU_NAAM |-> aligned(i, 2)]]]

\* points inside the first region only, inside both, inside the second
\* only, and outside every region
Points == {[x |-> 1, y |-> 1], [x |-> 3, y |-> 1], [x |-> 5, y |-> 1], [x |-> 7, y |-> 1]}

\* the geo tables of at most MaxRows rows, with any index labels
InputRows == [label : 0..MaxRows, geometry : Points, v : {5}]
InputTables ==
    UNION {[type : {"GeoDataFrame"},
            columns : {<<"v", "geometry">>},
            rows : [1..n -> InputRows]] : n \in 1..MaxRows}

\* a call of aggregate_point_data
Aggregate ==
    /\ \E df \in InputTables :
          /\ jin' = df
          /\ jout' = aggregate_point_data(df, Shapes)
    /\ op' = "aggregate_point_data"
    /\ outcome' = "returned"
    /\ UNCHANGED <<layerVars, dataVars, fin, fout>>

NextJoin == Aggregate

SpecJoin == Init /\ [][NextJoin]_vars

(***************************************************************************)
(* Separator inference: _get_sep                                           *)
(***************************************************************************)
\* bound on the number of characters of a line before its newline
MaxLineLen == 3

Newline == "\n"
Tab == "\t"

\* str.isalpha and str.isdigit on the characters of the lines
isalpha(c) == c \in {"a"}
isdigit(c) == c \in {"1"}

\* the characters a line is made of
Alphabet == {"a", "1", ";", "."}

\* number of occurrences of a character in a line: Counter(line)[c]
Counter(line, c) == Cardinality({i \in DOMAIN line : line[i] = c})

\* position of the first occurrence of a character of the line
FirstIndex(line, c) ==
    CHOOSE i \in DOMAIN line : line[i] = c /\ \A j \in 1..(i - 1) : line[j] # c

\* Counter(line).most_common(): the distinct characters by descending count,
\* equal counts in order of first occurrence
most_common(line) ==
    LET chars == {line[i] : i \in DOMAIN line}
        ahead(c, d) == \/ Counter(line, c) > Counter(line, d)
                       \/ /\ Counter(line, c) = Counter(line, d)
                          /\ FirstIndex(line, c) < FirstIndex(line, d)
        rank(c) == 1 + Cardinality({d \in chars : ahead(d, c)})
    IN  [k \in 1..Cardinality(chars) |->
            LET c == CHOOSE x \in chars : rank(x) = k
            IN  [c |-> c, freq |-> Counter(line, c)]]

\* the loop of _get_sep from position k of counter_first
RECURSIVE ScanSep(_, _, _)
ScanSep(counter_first, second, k) ==
    IF k > Len(counter_first)
    THEN [sep |-> Tab, warned |-> TRUE]
    ELSE LET c == counter_first[k].c
             freq == counter_first[k].freq
         IN  IF isalpha(c) \/ isdigit(c) \/ c = Newline
             THEN ScanSep(counter_first, second, k + 1)
             ELSE IF Counter(second, c) = freq
                  THEN [sep |-> c, warned |-> FALSE]
                  ELSE ScanSep(counter_first, second, k + 1)

\* _get_sep on the first two lines
get_sep(lines) ==
    LET first == lines[1]
        second == lines[2]
    IN  ScanSep(most_common(first), second, 1)

\* the lines readlines gives: up to MaxLineLen characters and the newline
FileLines ==
    UNION {{l \o <<Newline>> : l \in [1..n -> Alphabet]} : n \in 1..MaxLineLen}

\* the characters a file is written with as separator
Separators == {";", "."}

\* a call of _get_sep on a file written with separator sep; the function keeps
\* no state, so one call per behaviour covers it
GetSep ==
    /\ op = "init"
    /\ \E sep \in Separators, first \in FileLines, second \in FileLines :
          /\ fin' = [sep |-> sep, lines |-> <<first, second>>]
          /\ fout' = get_sep(<<first, second>>)
    /\ op' = "_get_sep"
    /\ outcome' = "returned"
    /\ UNCHANGED <<layerVars, dataVars, jin, jout>>

NextSep == GetSep

SpecSep == Init /\ [][NextSep]_vars

(***************************************************************************)
(* Reduction per region: _group_values                                     *)
(***************************************************************************)
\* bound on the number of rows of a grouped table
MaxGroupRows == 3

\* a missing value (NaN): astype(float) accepts it, groupby and the reducers
\* skip it
Missing == [t |-> "float", cast |-> TRUE, p |-> "", l |-> 0, n |-> 0]
isnull(cell) == cell = Missing

\* the reducers _group_values has a branch for
CastingMethods == {"mean", "max", "min", "sum"}
KnownMethods == CastingMethods \cup {"frequency"}

\* the group key of a row: groupby_value is the code column, or the code and
\* the name column
GroupKey(row, two_keys) == IF two_keys THEN <<row.k1, row.k2>> ELSE <<row.k1>>

\* groupby leaves out the rows that miss a key value (dropna=True)
GroupKeys(rows, two_keys) ==
    {GroupKey(rows[i], two_keys) : i \in 1..Len(rows)}
        \ {k \in {GroupKey(rows[i], two_keys) : i \in 1..Len(rows)} :
              \E j \in DOMAIN k : isnull(k[j])}

\* groupby sorts the groups by key
KeyBefore(a, b) ==
    \/ a[1].n < b[1].n
    \/ a[1].n = b[1].n /\ Len(a) = 2 /\ a[2].n < b[2].n

RECURSIVE SortedKeys(_)
SortedKeys(keys) ==
    IF keys = {} THEN <<>>
    ELSE LET first == CHOOSE k \in keys : \A o \in keys \ {k} : KeyBefore(k, o)
         IN  <<first>> \o SortedKeys(keys \ {first})

\* the target values of the rows of a group, in row order
RECURSIVE GroupValues(_, _, _)
GroupValues(rows, two_keys, key) ==
    IF rows = <<>> THEN <<>>
    ELSE (IF GroupKey(Head(rows), two_keys) = key THEN <<Head(rows).v>> ELSE <<>>)
         \o GroupValues(Tail(rows), two_keys, key)

RECURSIVE SumOf(_)
SumOf(cells) == IF cells = <<>> THEN 0 ELSE Head(cells).n + SumOf(Tail(cells))

\* the result of a reducer on a group without values: NaN, as the fraction 0/0
NoValue == [num |-> 0, den |-> 0]

Reduced_AlwaysSum(cells, method) ==
    [num |-> SumOf(SelectSeq(cells, LAMBDA c : ~isnull(c))), den |-> 1]

\* the reducers of pandas on the values of one group: missing values are
\* skipped; the mean is the fraction num/den
Reduced(cells, method) ==
    LET present == SelectSeq(cells, LAMBDA c : ~isnull(c))
        ns == {present[i].n : i \in 1..Len(present)}
    IN  IF method = "frequency" THEN [num |-> Len(present), den |-> 1]
        ELSE IF method = "sum" THEN [num |-> SumOf(present), den |-> 1]
        ELSE IF present = <<>> THEN NoValue
        ELSE IF method = "max"
             THEN [num |-> CHOOSE m \in ns : \A o \in ns : o <= m, den |-> 1]
        ELSE IF method = "min"
             THEN [num |-> CHOOSE m \in ns : \A o \in ns : m <= o, den |-> 1]
        ELSE [num |-> SumOf(present), den |-> Len(present)]

\* the grouped frame after reset_index: one row per group, sorted by key
GroupedRows(rows, two_keys, method) ==
    LET keys == SortedKeys(GroupKeys(rows, two_keys))
    IN  [i \in 1..Len(keys) |->
            [key |-> keys[i],
             v |-> Reduced(GroupValues(rows, two_keys, keys[i]), method)]]

\* _group_values. The four casting branches cast the target column to float
\* first (ValueError on a value that is no number); the frequency branch
\* counts; every other group_method takes the mean without the cast, which
\* reduces the target column only when it is numeric already
group_values(rows, two_keys, group_method) ==
    LET targets == Column(rows, "v")
        numeric == \A i \in 1..Len(targets) : targets[i].t \in {"int", "float"}
    IN  IF group_method \in CastingMethods
        THEN IF AllCast(targets)
             THEN [status |-> "returned", rows |-> GroupedRows(rows, two_keys, group_method)]
             ELSE [status |-> "ValueError", rows |-> <<>>]
        ELSE IF group_method = "frequency"
        THEN [status |-> "returned", rows |-> GroupedRows(rows, two_keys, "frequency")]
        ELSE IF numeric
        THEN [status |-> "returned", rows |-> GroupedRows(rows, two_keys, "mean")]
        ELSE [status |-> "no target column", rows |-> <<>>]

\* the rows of the tables that are grouped: region code, region name, target
GroupRows ==
    [k1 : {BU(1), BU(2), Missing}, k2 : {Txt(1), Txt(2)},
     v : {Num(1), Num(2), Missing, Txt(1)}]

GroupTables == UNION {[1..n -> GroupRows] : n \in 1..MaxGroupRows}

\* the values of the reducer dropdown, its empty initial value included
GroupMethods == KnownMethods \cup {""}

\* a call of _group_values
GroupValuesCall ==
    /\ op = "init"
    /\ \E rows \in GroupTables, two_keys \in BOOLEAN, method \in GroupMethods :
          /\ fin' = [rows |-> rows, two_keys |-> two_keys, group_method |-> method]
          /\ fout' = group_values(rows, two_keys, method)
    /\ op' = "_group_values"
    /\ outcome' = "returned"
    /\ UNCHANGED <<layerVars, dataVars, jin, jout>>

NextGroup == GroupValuesCall

SpecGroup == Init /\ [][NextGroup]_vars

(***************************************************************************)
(* The bubble map: _process_bubble_mapbox, add_bubble_layer and            *)
(* _find_middle_point                                                      *)
(***************************************************************************)
\* the region code of the shape set a code cell stands for
RegionCode == <<"BU1", "BU2">>

\* geometry.centroid of a region of the shape set
Centroid(shape) == [x |-> (shape.x1 + shape.x2) \div 2, y |-> (shape.y1 + shape.y2) \div 2]

\* _find_middle_point: the centroid of the region with the code; IndexError
\* when the shape set has no such region
find_middle_point(code, shapes) ==
    IF code = Onbekend THEN [status |-> "returned", lon |-> None, lat |-> None]
    ELSE LET found == {k \in 1..Len(shapes) :
                          code.n \in DOMAIN RegionCode /\ shapes[k].code = RegionCode[code.n]}
         IN  IF found = {} THEN [status |-> "IndexError", lon |-> None, lat |-> None]
             ELSE LET k == CHOOSE m \in found : \A o \in found : m <= o
                  IN  [status |-> "returned",
                       lon |-> Centroid(shapes[k]).x, lat |-> Centroid(shapes[k]).y]

\* sort_values(by=map_data, ascending=False) on the grouped frame
RECURSIVE SortDescending(_)
SortDescending(rows) ==
    IF rows = <<>> THEN <<>>
    ELSE LET greater(a, b) == a.v.num * b.v.den > b.v.num * a.v.den
             i == CHOOSE j \in 1..Len(rows) :
                     /\ \A o \in 1..Len(rows) : ~greater(rows[o], rows[j])
                     /\ \A o \in 1..(j - 1) : greater(rows[j], rows[o])
         IN  <<rows[i]>> \o SortDescending(SubSeq(rows, 1, i - 1) \o SubSeq(rows, i + 1, Len(rows)))

\* add_bubble_layer: one bubble per key at the middle point of its region,
\* with the size given
add_bubble_layer(data_key, size, shapes) ==
    LET middle_points == [i \in 1..Len(data_key) |-> find_middle_point(data_key[i], shapes)]
    IN  IF \E i \in 1..Len(data_key) : middle_points[i].status # "returned"
        THEN [status |-> "IndexError", lon |-> <<>>, lat |-> <<>>, size |-> <<>>]
        ELSE [status |-> "returned",
              lon |-> [i \in 1..Len(data_key) |-> middle_points[i].lon],
              lat |-> [i \in 1..Len(data_key) |-> middle_points[i].lat],
              size |-> size]

process_bubble_mapbox_MemberPoints(gdf, layer, shapes) ==
    [status |-> "returned",
     lon |-> [i \in 1..Len(gdf) |-> gdf[i].geometry.x],
     lat |-> [i \in 1..Len(gdf) |-> gdf[i].geometry.y],
     size |-> [i \in 1..Len(gdf) |-> [num |-> gdf[i].v.n, den |-> 1]]]

\* _process_bubble_mapbox: the frame is grouped by region code and name and
\* sorted by the reduced target; the bubble layer gets the codes and the
\* reduced targets of the grouped frame, no other column
process_bubble_mapbox(gdf, layer, shapes) ==
    LET frame == [i \in 1..Len(gdf) |->
                     [k1 |-> gdf[i].BU_CODE, k2 |-> gdf[i].BU_NAAM, v |-> gdf[i].v]]
        grouped == group_values(frame, TRUE, layer.aggregate_method)
        sorted == SortDescending(grouped.rows)
    IN  IF grouped.status # "returned"
        THEN [status |-> grouped.status, lon |-> <<>>, lat |-> <<>>, size |-> <<>>]
        ELSE add_bubble_layer([i \in 1..Len(sorted) |-> sorted[i].key[1]],
                              [i \in 1..Len(sorted) |-> sorted[i].v], shapes)

\* the observations of a bubble layer: region code and name, target, and the
\* point of the observation
BubbleRows ==
    [BU_CODE : {BU(1), BU(2)}, BU_NAAM : {Txt(1)}, v : {Num(1), Num(2)}, geometry : Points]

BubbleTables == UNION {[1..n -> BubbleRows] : n \in 1..MaxRows}

\* the reducers of the bubble layers
BubbleLayers == [aggregate_method : {"mean", "frequency"}]

\* two tables that agree in every column but the geometry
SameButGeometry(a, b) ==
    /\ Len(a) = Len(b)
    /\ \A i \in 1..Len(a) : [a[i] EXCEPT !.geometry = b[i].geometry] = b[i]

\* _process_bubble_mapbox on two tables of the same codes and targets
ProcessBubbleMapbox ==
    /\ op = "init"
    /\ \E a \in BubbleTables, layer \in BubbleLayers :
          \E b \in {t \in BubbleTables : SameButGeometry(a, t)} :
             /\ fin' = [a |-> a, b |-> b, layer |-> layer]
             /\ fout' = [a |-> process_bubble_mapbox(a, layer, Shapes),
                         b |-> process_bubble_mapbox(b, layer, Shapes)]
    /\ op' = "_process_bubble_mapbox"
    /\ outcome' = "returned"
    /\ UNCHANGED <<layerVars, dataVars, jin, jout>>

NextBubble == ProcessBubbleMapbox

SpecBubble == Init /\ [][NextBubble]_vars

(***************************************************************************)
(* The forms of every layer kind: general_options_loader and the option    *)
(* loaders add_vis_specific_options chooses from                           *)
(***************************************************************************)
\* the values of 'general-select-vis-dropdown' on a chart slot
ChartKinds ==
    {"scatter", "barchart", "grouped_barchart", "piechart", "histogram", "multi_histogram"}

\* the kinds whose form has a dropdown for the y column
TwoValueKinds == {"scatter", "barchart", "grouped_barchart"}

\* the map kinds
MapKinds == {"choroplethmapbox", "categorical_choroplethmapbox", "bubble_mapbox"}

\* The State lists save_layer gets from the form of a chart kind: a component
\* the option loader of the kind does not create gives an empty list.
KindFields(vis, x, xa, y, ya) ==
    [selected_vis |-> vis, selected_data |-> "ok",
     x_data |-> x,
     x_axis |-> IF vis \in {"piechart", "multi_histogram"} THEN Absent ELSE xa,
     y_data |-> IF vis \in {"histogram", "multi_histogram"} THEN Absent ELSE y,
     y_axis |-> IF vis \in TwoValueKinds THEN ya ELSE Absent,
     mode |-> IF vis \in {"grouped_barchart", "multi_histogram"} THEN "overlay" ELSE Absent,
     map_level |-> Absent, map_data |-> Absent, map_labels |-> Absent,
     aggregate_method |-> Absent, colormap |-> Absent]

\* a column dropdown holds "" until the user chooses, and None once cleared
ColumnChoices(col) == {"", None, col}

\* a title input holds "" until the user types
TitleChoices == {"", "T"}

\* the chart forms of every kind
KindCharts ==
    {KindFields(vis, x, xa, y, ya) :
        vis \in ChartKinds, x \in ColumnChoices("BU_CODE"), xa \in TitleChoices,
        y \in {"", "v"}, ya \in TitleChoices}

\* the map forms of every kind
KindMaps ==
    {[MapForm(vis, "ok", "Buurt", labels) EXCEPT
         !.aggregate_method = IF vis = "categorical_choroplethmapbox" THEN Absent ELSE @,
         !.colormap = IF vis = "categorical_choroplethmapbox" THEN Absent ELSE @] :
        vis \in MapKinds, labels \in ColumnChoices("BU_CODE")}

\* the inputs of the specification of the field checks
FieldInputs ==
    [figs |-> {"extra_vis_1", "map_vis"},
     names |-> [fig \in SeqToSet(Slots) |-> {"a"}],
     chart |-> KindCharts,
     map |-> KindMaps]

\* The layer store under saves of forms of every kind.
NextFields ==
    \/ Save(FieldInputs)
    \/ Delete(FieldInputs)

SpecFields == Init /\ [][NextFields]_vars

(***************************************************************************)
(* Leaving a form: the go-back button                                      *)
(***************************************************************************)
\* The go-back button of a form is an Input of add_all_divs_to_chosen_figure,
\* which shows the figure again, and of no callback that writes a store.
GoBack ==
    /\ op' = "go_back"
    /\ outcome' = "returned"
    /\ UNCHANGED <<layerVars, dataVars, joinVars>>

\* The layer store under the save, delete and go-back buttons.
NextLifecycle ==
    \/ Save(StoreInputs)
    \/ Delete(StoreInputs)
    \/ GoBack

SpecLifecycle == Init /\ [][NextLifecycle]_vars

(***************************************************************************)
(* The preview of an uploaded file: load_data (upload), set_options and    *)
(* show_header_alert, and the header line pd.read_table takes              *)
(***************************************************************************)
\* bound on the number of lines of an uploaded file
MaxFileLines == 53

\* max_len of the upload callback: the number of rows read for the preview
PreviewCap == 50

Min(a, b) == IF a <= b THEN a ELSE b

\* a delimited-text file of n lines; a line is identified by its number
TextFile(n) == [i \in 1..n |-> i]

\* pd.read_table(contents, header=header, nrows=nrows): line header, counted
\* from 0, gives the column names, the lines after it the rows
read_table(lines, header, nrows) ==
    IF header >= Len(lines)
    THEN [status |-> "raised", columns |-> None, rows |-> <<>>]
    ELSE [status |-> "returned",
          columns |-> lines[header + 1],
          rows |-> SubSeq(lines, header + 2, Min(Len(lines), header + 1 + nrows))]

\* read_file on a text file: header 0 is taken as 1, and line header - 1,
\* counted from 0, is the header of the table
read_text_file(lines, header, nrows) ==
    read_table(lines, (IF header = 0 THEN 1 ELSE header) - 1, nrows)

\* the upload callback load_data: the value of 'temp-data'
temp_data(lines) ==
    LET options_df == read_text_file(lines, 1, PreviewCap)
    IN  [dataframe |-> options_df.rows,
         columns |-> options_df.columns,
         length |-> Len(options_df.rows),
         max_length |-> PreviewCap,
         status |-> options_df.status]

\* set_options triggered by the header input: the line offered as column
\* names and the value written back to the header input
set_options(temp, header) ==
    IF header > 1
    THEN LET clamped == Min(header, temp.length - 1)
         IN  IF temp.length = 0
             THEN [status |-> "raised", columns |-> None, header |-> header]
             ELSE [status |-> "returned",
                   columns |-> temp.dataframe[clamped + 1],
                   header |-> clamped]
    ELSE [status |-> "returned", columns |-> temp.columns, header |-> header]

\* show_header_alert: whether the alert is open and which text it shows
show_header_alert(header, temp) ==
    IF header >= temp.length - 1
    THEN IF header >= temp.max_length - 1
         THEN [is_open |-> TRUE, children |-> "preview cap", arg |-> temp.max_length]
         ELSE [is_open |-> TRUE, children |-> "greater than the dataset",
               arg |-> temp.length - 1]
    ELSE [is_open |-> FALSE, children |-> "", arg |-> 0]

\* The user uploads a file and types a header row: the preview callbacks run
\* on it, and the load button reads the file with the header of the input.
PreviewHeader ==
    /\ op = "init"
    /\ \E n \in 1..MaxFileLines, header \in 0..MaxFileLines :
          LET lines == TextFile(n)
              temp == temp_data(lines)
              options == set_options(temp, header)
          IN  /\ temp.status = "returned"
              /\ fin' = [lines |-> lines, header |-> header]
              /\ fout' = [temp |-> temp,
                          options |-> options,
                          alert |-> show_header_alert(header, temp),
                          loaded |-> read_text_file(lines, header, Len(lines))]
    /\ op' = "set_options"
    /\ outcome' = "returned"
    /\ UNCHANGED <<layerVars, dataVars, jin, jout>>

NextPreview == PreviewHeader

SpecPreview == Init /\ [][NextPreview]_vars

(***************************************************************************)
(* The series of the scatter and the bar chart: update_figures             *)
(***************************************************************************)
\* bound on the number of rows of a charted table
MaxSeriesRows == 3

\* astype(float) on one value
AsFloat(cell) == [cell EXCEPT !.t = "float"]

\* the order np.argsort sorts by: numbers by value with NaN last, strings as
\* strings
CellLeq(a, b) == isnull(b) \/ (~isnull(a) /\ a.n <= b.n)

\* np.argsort can compare the values: numbers only, or strings only
Comparable(cells) == \A i, j \in 1..Len(cells) : cells[i].cast = cells[j].cast

\* np.argsort(values): an index order that sorts the values; which of the
\* orders of equal values it returns is left to the sorting algorithm
argsort(cells) ==
    {p \in Permutations(1..Len(cells)) :
        \A i \in 1..(Len(cells) - 1) : CellLeq(cells[p[i]], cells[p[i + 1]])}

\* series.iloc[x_sort]
iloc(cells, x_sort) == [i \in 1..Len(cells) |-> cells[x_sort[i]]]

\* a column cast with astype(float) when every value allows it, and left as
\* it is when the cast raises ValueError
CastOrKeep(cells) ==
    IF AllCast(cells) THEN [i \in 1..Len(cells) |-> AsFloat(cells[i])] ELSE cells

scatter_series_YUnsorted(rows, x_sort) ==
    [status |-> "drawn",
     x |-> iloc(CastOrKeep(Column(rows, "x")), x_sort),
     y |-> CastOrKeep(Column(rows, "y"))]

\* the scatter branch of update_figures, with x_sort the result of argsort
scatter_series(rows, x_sort) ==
    LET x_data == CastOrKeep(Column(rows, "x"))
        y_data == CastOrKeep(Column(rows, "y"))
    IN  IF ~Comparable(x_data) THEN [status |-> "TypeError", x |-> <<>>, y |-> <<>>]
        ELSE [status |-> "drawn", x |-> iloc(x_data, x_sort), y |-> iloc(y_data, x_sort)]

\* the bar chart branch of update_figures: x is not cast, and a y column that
\* cannot be cast gives an error instead of a series
barchart_series(rows, x_sort) ==
    LET x == Column(rows, "x")
        y == Column(rows, "y")
    IN  IF ~Comparable(x) THEN [status |-> "TypeError", x |-> <<>>, y |-> <<>>]
        ELSE IF ~AllCast(y) THEN [status |-> "type_error", x |-> <<>>, y |-> <<>>]
        ELSE [status |-> "drawn", x |-> iloc(x, x_sort), y |-> iloc(CastOrKeep(y), x_sort)]

\* the rows of a charted table, in any order
SeriesRows ==
    [x : {Num(1), Num(2), Num(3), Missing, Txt(1), Txt(2)}, y : {Num(1), Num(2), Txt(1)}]

SeriesTables == UNION {[1..n -> SeriesRows] : n \in 1..MaxSeriesRows}

\* the index orders argsort can return; for values it cannot compare it
\* raises before any order exists
SortOrders(vis, rows) ==
    LET x == IF vis = "scatter" THEN CastOrKeep(Column(rows, "x")) ELSE Column(rows, "x")
    IN  IF Comparable(x) THEN argsort(x) ELSE {<<>>}

\* update_figures draws one scatter or bar chart layer of a table
DrawSeries ==
    /\ op = "init"
    /\ \E rows \in SeriesTables, vis \in {"scatter", "barchart"} :
          \E x_sort \in SortOrders(vis, rows) :
             /\ fin' = [rows |-> rows, vis |-> vis]
             /\ fout' = IF vis = "scatter" THEN scatter_series(rows, x_sort)
                        ELSE barchart_series(rows, x_sort)
    /\ op' = "draw_series"
    /\ outcome' = "returned"
    /\ UNCHANGED <<layerVars, dataVars, jin, jout>>

NextSeries == DrawSeries

SpecSeries == Init /\ [][NextSeries]_vars

(***************************************************************************)
(* The two pages on one session: the dataset stores and the layer store    *)
(***************************************************************************)
\* The dataset dropdown of a layer form offers the names of the combined
\* dataset store (add_general_options_part_2); the form with the save button
\* is built from the columns of the chosen dataset (_get_column_options).
SelectableDatasets ==
    LET all == combine_data_dicts(data, rt_data)
    IN  {n \in DOMAIN all : "columns" \in DOMAIN all[n]}

\* the layer forms on the datasets of the session
SessionInputs ==
    [figs |-> {"extra_vis_1"},
     names |-> [fig \in SeqToSet(Slots) |-> {"a"}],
     chart |-> {[CleanChart EXCEPT !.selected_data = n] : n \in SelectableDatasets},
     map |-> {}]

\* The requests of the dataset page and of the layer forms, one at a time.
NextSession ==
    \/ ClickLoadCustom
    \/ ClickDeleteYes
    \/ load_data
    \/ load_real_time_data
    \/ change_deletable_datasets
    \/ DataIdle /\ Save(SessionInputs)
    \/ DataIdle /\ Delete(SessionInputs)

SpecSession == InitData /\ [][NextSession]_vars

(***************************************************************************)
(* Properties of the layer store                                           *)
(***************************************************************************)
\* the store holds the layer save_layer builds from the form
Stored(store, form) ==
    LET layers == SlotLayers(store, form.selected_fig)
    IN  \E i \in 1..Len(layers) : layers[i] = MakeLayer(form)

\* the figure that shows one trace for every layer of the slot
SlotTraces(store, fig) ==
    LET layers == SlotLayers(store, fig)
    IN  [i \in 1..Len(layers) |-> Trace(layers[i])]

\* C1: a save whose validation yields an error leaves the layer store exactly
\* as it was and returns the errors; a save without error writes the layer.
C1_CommitAllOrNothing ==
    [][\A form \in SaveForms(StoreInputs, layer_data) :
          SaveLayerSave(form) =>
              IF Len(SaveErrors(form, layer_data)) > 0
              THEN /\ layer_data' = layer_data
                   /\ save_raise'.error = SaveErrors(form, layer_data)
              ELSE Stored(layer_data', form)]_vars

\* a save was refused while the store holds layers
C1_RefusedSave ==
    /\ op = "save_layer"
    /\ Len(save_raise.error) > 0
    /\ TotalLayers(layer_data) > 0

\* C2: saving a layer under a name the slot already holds, from a form that
\* is not the edit form of that name, leaves the store unchanged and returns
\* exactly one error naming the name; for every name, the add option too.
C2_DuplicateNameRejected ==
    [][\A form \in SaveForms(StoreInputs, layer_data) :
          LET fig == form.selected_fig
              n == LayerNameString(form)
              editing == EditMode(form.add_or_edit) /\ form.add_or_edit = n
          IN  (SaveLayerSave(form) /\ n \in LayerNames(SlotLayers(layer_data, fig)) /\ ~editing)
              => /\ layer_data' = layer_data
                 /\ Cardinality({i \in 1..Len(save_raise'.error) :
                                    save_raise'.error[i] = Msg("duplicate", fig, n)}) = 1]_vars

\* C3: a save with an empty name and no field missing never fails: the layer
\* is stored under 'Laag zonder naam' and a warning tells the name is missing.
C3_EmptyNameNeverFails ==
    [][\A form \in SaveForms(StoreInputs, layer_data) :
          (SaveLayerSave(form) /\ form.layer_name = "" /\ FieldErrors(form) = <<>>)
          => /\ Len(save_raise'.error) = 0
             /\ Stored(layer_data', form)
             /\ MakeLayer(form).layer_name = DefaultLayerName
             /\ \E i \in 1..Len(save_raise'.warning) : save_raise'.warning[i].kind = "no_name"]_vars

\* C4: every layer of the map slot has the map level of the slot's first
\* layer (a save at another level is not written).
C4_MapSlotOneLevel ==
    LET layers == SlotLayers(layer_data, "map_vis")
    IN  \A i \in 1..Len(layers) : layers[i].map_level = layers[1].map_level

(***************************************************************************)
(* Properties of the render passes                                         *)
(***************************************************************************)
\* the layer cannot be drawn on a map of the level: its level differs, or
\* its region-code column holds no codes of the level
FaultyMapLayer(layer, all, level) ==
    \/ layer.map_level # level
    \/ /\ Usable(all, layer.selected_dataset)
       /\ HasColumn(all, layer.selected_dataset, layer.map_labels)
       /\ ~CodeColumnOk(Column(DropUnknown(all[layer.selected_dataset].data, layer.map_labels),
                               layer.map_labels),
                        code_start[layer.map_level])

\* C5: the diagnostics one update_map call returns hold an error for every
\* faulty layer of the map slot.
C5_ErrorForEveryFaultyLayer ==
    (op = "update_map" /\ outcome = "returned")
    => LET layers == SlotLayers(layer_data, "map_vis")
           all == combine_data_dicts(data, rt_data)
           faulty == {i \in 1..Len(layers) :
                         FaultyMapLayer(layers[i], all, ChosenLevel(layer_data))}
       IN  Len(map_raise.error) >= Cardinality(faulty)

\* C6: a render pass that returns diagnostics with an error updates no
\* figure; one that returns without error shows the figure built from the
\* layers of the store.
C6_ErrorsKeepStaleFigure ==
    [][/\ (op' = "update_figures" /\ outcome' = "returned")
          => IF Len(graph_raise'.error) > 0
             THEN figure' = figure
             ELSE /\ \A fig \in SeqToSet(ChartSlots) \cap DOMAIN layer_data :
                        figure'[fig] = SlotTraces(layer_data, fig)
                  /\ figure'.map_vis = figure.map_vis
       /\ (op' = "update_map" /\ outcome' = "returned")
          => IF Len(map_raise'.error) > 0
             THEN figure' = figure
             ELSE /\ figure'.map_vis = Background(ChosenLevel(layer_data))
                                         \o SlotTraces(layer_data, "map_vis")
                  /\ \A fig \in SeqToSet(ChartSlots) : figure'[fig] = figure[fig]]_vars

\* update_figures returned an error while a chart shows an earlier figure
C6_StaleChartKept ==
    /\ op = "update_figures"
    /\ outcome = "returned"
    /\ Len(graph_raise.error) > 0
    /\ figure.extra_vis_1 # NoFigure

(***************************************************************************)
(* Properties of the dataset stores                                        *)
(***************************************************************************)
\* C7: once 'meet je stad' is in the combined dataset store no request
\* removes it, and the delete dropdown does not offer it.
C7_StandardDatasetKept ==
    [][(StandardDataset \in DOMAIN combine_data_dicts(data, rt_data))
       => (StandardDataset \in DOMAIN combine_data_dicts(data', rt_data')
           /\ StandardDataset \notin delete_options')]_vars

\* C8: the record of a name in the dataset store changes only when that
\* name is aggregated in place (or deleted); no load alters an existing record.
C8_RecordChangesOnlyByAggregation ==
    [][\A n \in (DOMAIN data) \cap (DOMAIN data') :
          \/ data'[n] = data[n]
          \/ /\ dreq.trigger = "data-aggregate-button"
             /\ dreq.aggregate_name = n
             /\ "aggregated" \in DOMAIN data[n]
             /\ data'[n] = AggregatedRecord(data[n], dreq.aggregate_level)
      ]_vars

\* C9: a custom load whose file cannot be read or bound completes, leaves
\* an error record without data under the requested name, and changes no
\* other dataset.
C9_FailedLoadGivesErrorRecord ==
    [][(/\ "load_data" \in dpending
        /\ "load_data" \notin dpending'
        /\ dreq.trigger = "ed-load-button"
        /\ read_file(dreq.file, dreq.read_type) # "ok")
       => LET n == ResolveName(dreq.dataset_name, {""}, data)
          IN  /\ outcome' = "returned"
              /\ n \in DOMAIN data'
              /\ "error" \in DOMAIN data'[n]
              /\ data'[n].data = <<>>
              /\ DOMAIN data' = (DOMAIN data) \cup {n}
              /\ \A k \in (DOMAIN data) \ {n} : data'[k] = data[k]
      ]_vars

(***************************************************************************)
(* Properties of the spatial join                                          *)
(***************************************************************************)
\* C10: every row gets the code and name of the first region that strictly
\* contains its point, or ('onbekend', 'onbekend') when none does, whatever
\* the index labels; the rows and other columns are unchanged and exactly
\* the code and name columns are added.
C10_JoinAssignsContainingRegion ==
    (op = "aggregate_point_data")
    => /\ Len(jout.rows) = Len(jin.rows)
       /\ jout.columns = jin.columns \o <<"BU_CODE", "BU_NAAM">>
       /\ \A i \in 1..Len(jin.rows) :
             LET row == jin.rows[i]
                 inside == {k \in 1..Len(Shapes) : Contains(Shapes[k], row.geometry)}
                 first == CHOOSE m \in inside : \A o \in inside : m <= o
             IN  /\ jout.rows[i].label = row.label
                 /\ jout.rows[i].geometry = row.geometry
                 /\ jout.rows[i].v = row.v
                 /\ IF inside = {}
                    THEN jout.rows[i].BU_CODE = "onbekend" /\ jout.rows[i].BU_NAAM = "onbekend"
                    ELSE /\ jout.rows[i].BU_CODE = Shapes[first].code
                         /\ jout.rows[i].BU_NAAM = Shapes[first].name

(***************************************************************************)
(* Properties of the separator inference                                   *)
(***************************************************************************)
\* C11: for a file whose separator occurs in the first line and equally
\* often in the second line, _get_sep returns that separator without warning.
C11_InferredSeparatorIsTrueSeparator ==
    (/\ op = "_get_sep"
     /\ Counter(fin.lines[1], fin.sep) > 0
     /\ Counter(fin.lines[2], fin.sep) = Counter(fin.lines[1], fin.sep))
    => (fout.sep = fin.sep /\ ~fout.warned)

(***************************************************************************)
(* Properties of the reduction per region                                  *)
(***************************************************************************)
\* the rows of the call's table that have the key of a grouped row
RowsOfGroup(key) ==
    {i \in 1..Len(fin.rows) : GroupKey(fin.rows[i], fin.two_keys) = key}

\* C12: reducer 'frequency' returns, and gives every group the number of
\* rows of that group, whatever the target column holds.
C12_FrequencyCountsRows ==
    (op = "_group_values" /\ fin.group_method = "frequency")
    => /\ fout.status = "returned"
       /\ \A i \in 1..Len(fout.rows) :
             fout.rows[i].v = [num |-> Cardinality(RowsOfGroup(fout.rows[i].key)), den |-> 1]

\* the value a reducer has on the rows I of the call's table, missing target
\* values left out: fractions are compared by cross-multiplication
RECURSIVE TargetSum(_)
TargetSum(I) ==
    IF I = {} THEN 0
    ELSE LET i == CHOOSE x \in I : TRUE IN fin.rows[i].v.n + TargetSum(I \ {i})

IsReducerValue(v, I, method) ==
    LET P == {i \in I : ~isnull(fin.rows[i].v)}
    IN  IF method = "sum" THEN v = [num |-> TargetSum(P), den |-> 1]
        ELSE IF P = {} THEN v = NoValue
        ELSE IF method = "max"
             THEN /\ v.den = 1
                  /\ \E i \in P : fin.rows[i].v.n = v.num
                  /\ \A i \in P : fin.rows[i].v.n <= v.num
        ELSE IF method = "min"
             THEN /\ v.den = 1
                  /\ \E i \in P : fin.rows[i].v.n = v.num
                  /\ \A i \in P : fin.rows[i].v.n >= v.num
        ELSE v # NoValue /\ v.num * Cardinality(P) = TargetSum(P) * v.den

\* a call with one of the four numeric reducers on a target column of numbers
NumericReduction ==
    /\ op = "_group_values"
    /\ fin.group_method \in {"mean", "max", "min", "sum"}
    /\ AllCast(Column(fin.rows, "v"))

\* the output has exactly one row for each of the key combinations K, with
\* the reducer's value on the rows of that combination
OneRowPerKey(K) ==
    /\ fout.status = "returned"
    /\ \A k \in K : Cardinality({i \in 1..Len(fout.rows) : fout.rows[i].key = k}) = 1
    /\ \A i \in 1..Len(fout.rows) :
          /\ fout.rows[i].key \in K
          /\ IsReducerValue(fout.rows[i].v, RowsOfGroup(fout.rows[i].key), fin.group_method)

NumericMapLayers ==
    LET layers == SlotLayers(layer_data, "map_vis")
    IN  {i \in 1..Len(layers) :
            layers[i].visualisation_type \in {"choroplethmapbox", "bubble_mapbox"}}

\* the target column of map layer i as update_map reads it
TargetColumn(i) ==
    LET layer == SlotLayers(layer_data, "map_vis")[i]
        all == combine_data_dicts(data, rt_data)
    IN  Column(DropUnknown(all[layer.selected_dataset].data, layer.map_labels), layer.map_data)

\* C14: when update_map draws a numeric map layer whose reducer is none of
\* mean, max, min, sum and frequency, its diagnostics report the fallback to
\* the mean: the diagnostics record is not empty.
C14_FallbackToMeanIsReported ==
    (/\ op = "update_map"
     /\ outcome = "returned"
     /\ \E i \in NumericMapLayers :
           /\ SlotLayers(layer_data, "map_vis")[i].aggregate_method \notin KnownMethods
           /\ \E t \in 1..Len(figure.map_vis) :
                 figure.map_vis[t] = Trace(SlotLayers(layer_data, "map_vis")[i]))
    => Len(map_raise.error) + Len(map_raise.warning) > 0

\* C15: update_map on a numeric map layer with a numeric reducer whose target
\* column holds a value that is no number returns, leaves the map figure as
\* it was and reports a type error that names the layer.
C15_UncastableTargetIsReported ==
    [][(/\ op' = "update_map"
        /\ "update_map" \in pending
        /\ \E i \in NumericMapLayers :
              /\ SlotLayers(layer_data, "map_vis")[i].aggregate_method # "frequency"
              /\ ~AllCast(TargetColumn(i)))
       => (/\ outcome' = "returned"
           /\ figure' = figure
           /\ \A i \in NumericMapLayers :
                 (/\ SlotLayers(layer_data, "map_vis")[i].aggregate_method # "frequency"
                  /\ ~AllCast(TargetColumn(i)))
                 => \E e \in 1..Len(map_raise'.error) :
                       map_raise'.error[e] =
                           Msg("type_error", "map_vis",
                               SlotLayers(layer_data, "map_vis")[i].layer_name))
      ]_vars

\* C16: update_figures on a scatter layer whose y column holds a value that
\* is no number returns no figure update and exactly one type error.
C16_ScatterTextIsReported ==
    [][(/\ op' = "update_figures"
        /\ "update_figures" \in pending
        /\ SlotLayers(layer_data, "extra_vis_1") = <<MakeLayer(Form("extra_vis_1", "a", AddOption, TextScatter))>>)
       => (/\ outcome' = "returned"
           /\ figure' = figure
           /\ Cardinality({e \in 1..Len(graph_raise'.error) :
                              graph_raise'.error[e].kind = "type_error"}) = 1)
      ]_vars

\* every value of the region-code column is a string with the prefix of the
\* level, and all values have one and the same valid length
AllValidCodes(codes, start) ==
    /\ \A i \in 1..Len(codes) : codes[i].t = "str" /\ codes[i].p = start
    /\ \E len \in {10, 8, 6} : \A i \in 1..Len(codes) : codes[i].l = len

\* C17: after update_map, every map layer whose region-code column is not
\* valid throughout has an error in the diagnostics and no trace on the map.
C17_InvalidCodesSkipLayer ==
    (op = "update_map" /\ outcome = "returned")
    => \A i \in 1..Len(SlotLayers(layer_data, "map_vis")) :
          LET layer == SlotLayers(layer_data, "map_vis")[i]
              all == combine_data_dicts(data, rt_data)
              codes == Column(DropUnknown(all[layer.selected_dataset].data, layer.map_labels),
                              layer.map_labels)
          IN  ~AllValidCodes(codes, code_start[layer.map_level])
              => /\ \E e \in 1..Len(map_raise.error) :
                       map_raise.error[e] = Msg("code_column", "map_vis", layer.selected_dataset)
                 /\ \A t \in 1..Len(figure.map_vis) : figure.map_vis[t] # Trace(layer)

(***************************************************************************)
(* Properties of the categorical maps                                      *)
(***************************************************************************)
\* the rows of map layer i as update_map reads them
LayerRows(i) ==
    LET layer == SlotLayers(layer_data, "map_vis")[i]
        all == combine_data_dicts(data, rt_data)
    IN  DropUnknown(all[layer.selected_dataset].data, layer.map_labels)

\* the number of rows of region id that have the category
CategoryRows(rows, layer, id, category) ==
    Cardinality({r \in 1..Len(rows) :
                    rows[r][layer.map_labels].n = id /\ rows[r][layer.map_data].n = category})

\* the sub-layers the map shows for a layer
SubLayers(layer) ==
    {t \in 1..Len(figure.map_vis) :
        /\ "category" \in DOMAIN figure.map_vis[t]
        /\ figure.map_vis[t].name = layer.layer_name}

\* C18: on a categorical map drawn by update_map, a region with rows of more
\* than one category is drawn in the category that has the most rows in the
\* region, and the diagnostics hold the warning about several categories.
C18_MostFrequentCategoryDrawn ==
    (op = "update_map" /\ outcome = "returned" /\ Len(map_raise.error) = 0)
    => \A i \in 1..Len(SlotLayers(layer_data, "map_vis")) :
          LET layer == SlotLayers(layer_data, "map_vis")[i]
              rows == LayerRows(i)
              cats(id) == {rows[r][layer.map_data].n :
                              r \in {q \in 1..Len(rows) : rows[q][layer.map_labels].n = id}}
          IN  layer.visualisation_type = "categorical_choroplethmapbox"
              => \A id \in RegionIds :
                    Cardinality(cats(id)) > 1
                    => /\ \E w \in 1..Len(map_raise.warning) :
                             map_raise.warning[w] =
                                 Msg("multiple_categories", "map_vis", layer.layer_name)
                       /\ \A t \in SubLayers(layer) :
                             id \in figure.map_vis[t].locations
                             => \A c \in cats(id) :
                                   CategoryRows(rows, layer, id, c)
                                       <= CategoryRows(rows, layer, id, figure.map_vis[t].category)

\* the distinct categories map layer i draws
DrawnCategories(i) ==
    LET layer == SlotLayers(layer_data, "map_vis")[i]
    IN  UniqueCategories(LayerRows(i), layer.map_labels, layer.map_data)

\* update_map returns on a map slot of categorical layers, of which the
\* layers in over exceed the palette: the diagnostics hold one error per
\* layer of over, citing its number of categories and the palette size, and
\* the figure is not updated; without such a layer the map shows exactly one
\* sub-layer of value 0 and of one palette colour per category of each layer
CategoricalPass(over) ==
    LET layers == SlotLayers(layer_data, "map_vis")
    IN  /\ Len(map_raise'.error) = Cardinality(over)
        /\ \A i \in over :
              \E e \in 1..Len(map_raise'.error) :
                 map_raise'.error[e] =
                     PaletteMsg(Cardinality(DrawnCategories(i)), PaletteSize)
        /\ over # {} => figure' = figure
        /\ over = {} =>
              \A i \in 1..Len(layers) :
                 \A c \in DrawnCategories(i) :
                    LET subs == {t \in 1..Len(figure'.map_vis) :
                                    /\ "category" \in DOMAIN figure'.map_vis[t]
                                    /\ figure'.map_vis[t].name = layers[i].layer_name
                                    /\ figure'.map_vis[t].category = c}
                    IN  /\ Cardinality(subs) = 1
                        /\ \A t \in subs :
                              /\ figure'.map_vis[t].z = 0
                              /\ \E k \in 1..PaletteSize :
                                    figure'.map_vis[t].colorscale = <<k, k>>

\* update_map runs on a map slot that holds categorical layers only
CategoricalRender ==
    /\ op' = "update_map"
    /\ "update_map" \in pending
    /\ SlotLayers(layer_data, "map_vis") # <<>>
    /\ \A i \in 1..Len(SlotLayers(layer_data, "map_vis")) :
          SlotLayers(layer_data, "map_vis")[i].visualisation_type
              = "categorical_choroplethmapbox"

\* C19: a categorical layer with more distinct categories than the
\* palette has colours gives one blocking error citing both numbers and no
\* figure update; a layer with at most as many gives one zero-valued
\* sub-layer of a single palette colour per category.
C19_PalettePerLayer ==
    [][CategoricalRender
       => /\ outcome' = "returned"
          /\ CategoricalPass({i \in 1..Len(SlotLayers(layer_data, "map_vis")) :
                                 Cardinality(DrawnCategories(i)) > PaletteSize})
      ]_vars

(***************************************************************************)
(* Properties of the bubble map                                            *)
(***************************************************************************)
\* C20: for two tables of the same region codes and targets, the bubble
\* layers are plotted at the same coordinates, and every bubble lies at the
\* centroid of a region that has observations in the table.
C20_BubblesAtRegionCentroids ==
    (op = "_process_bubble_mapbox" /\ SameButGeometry(fin.a, fin.b))
    => /\ fout.a.status = "returned"
       /\ fout.a = fout.b
       /\ \A i \in 1..Len(fout.a.lon) :
             \E r \in 1..Len(fin.a), k \in 1..Len(Shapes) :
                /\ Shapes[k].code = RegionCode[fin.a[r].BU_CODE.n]
                /\ fout.a.lon[i] = Centroid(Shapes[k]).x
                /\ fout.a.lat[i] = Centroid(Shapes[k]).y
       /\ Len(fout.a.lon) = Cardinality({fin.a[r].BU_CODE : r \in 1..Len(fin.a)})

\* two tables whose observations lie at different points gave bubble layers
C20_DifferentPointsPlotted ==
    /\ op = "_process_bubble_mapbox"
    /\ fin.a # fin.b
    /\ fout.a.status = "returned"
    /\ Len(fout.a.lon) = 2

(***************************************************************************)
(* Properties of the field checks                                          *)
(***************************************************************************)
\* the form has no column in the field
NotChosen(v) == v \in {"", None}

\* C21: a chart layer of any kind saved without x column gets an error and is
\* not written, and so does a layer of a two-value kind or a pie chart saved
\* without y column; with the columns chosen and a new name, a missing axis
\* title gives a warning only and the layer is written.
C21_MissingColumnBlocks ==
    [][\A form \in SaveForms(FieldInputs, layer_data) :
          LET vis == form.selected_vis
              no_x == NotChosen(form.x_data)
              no_y == vis \in TwoValueKinds \cup {"piechart"} /\ NotChosen(form.y_data)
              no_title == \/ vis \notin {"piechart", "multi_histogram"} /\ form.x_axis = ""
                          \/ vis \in TwoValueKinds /\ form.y_axis = ""
          IN  (SaveLayerSave(form) /\ form.selected_fig # "map_vis")
              => /\ (no_x \/ no_y)
                    => (Len(save_raise'.error) > 0 /\ layer_data' = layer_data)
                 /\ (~no_x /\ ~no_y /\ DuplicateErrors(form, layer_data) = <<>>)
                    => /\ Len(save_raise'.error) = 0
                       /\ Stored(layer_data', form)
                       /\ no_title => Len(save_raise'.warning) > 0]_vars

\* C22: a map layer saved without region-code column, the dropdown left at
\* its initial empty value or cleared, gets an error and is not written.
C22_MissingRegionCodeBlocks ==
    [][\A form \in SaveForms(FieldInputs, layer_data) :
          (SaveLayerSave(form) /\ form.selected_fig = "map_vis" /\ NotChosen(form.map_labels))
          => (Len(save_raise'.error) > 0 /\ layer_data' = layer_data)]_vars

(***************************************************************************)
(* Properties of the layer lifecycle                                       *)
(***************************************************************************)
\* the layers of every slot but the layer of the name in the slot
OtherLayers(store, fig, n) ==
    [f \in SeqToSet(Slots) |->
        LET Other(layer) == f # fig \/ layer.layer_name # n
        IN  SelectSeq(SlotLayers(store, f), Other)]

\* C23: a save changes the store only by inserting the layer under a name new
\* to the slot or by overwriting the layer that is being edited; a delete
\* removes the layer it names; each leaves every other layer of every slot as
\* it was; going back leaves the store as it was.
C23_LayerLifecycle ==
    [][/\ \A form \in SaveForms(StoreInputs, layer_data) :
             LET fig == form.selected_fig
                 n == LayerNameString(form)
             IN  SaveLayerSave(form)
                 => \/ layer_data' = layer_data
                    \/ /\ OtherLayers(layer_data', fig, n) = OtherLayers(layer_data, fig, n)
                       /\ Stored(layer_data', form)
                       /\ \/ n \notin LayerNames(SlotLayers(layer_data, fig))
                          \/ EditMode(form.add_or_edit) /\ form.add_or_edit = n
       /\ \A form \in DeleteForms(StoreInputs, layer_data) :
             LET fig == form.selected_fig
                 n == form.layer_name
             IN  SaveLayerDelete(form)
                 => /\ OtherLayers(layer_data', fig, n) = OtherLayers(layer_data, fig, n)
                    /\ n \notin LayerNames(SlotLayers(layer_data', fig))
       /\ (op' = "go_back") => (layer_data' = layer_data)]_vars

(***************************************************************************)
(* Properties of the preview                                               *)
(***************************************************************************)
\* C24: a header value greater than the number of preview rows minus one is
\* clamped to that number and the alert is shown; the alert explains the
\* preview cap when the value reaches the cap; a header value within the
\* preview is left as it is and no alert is shown; header values 0 and 1
\* offer the same column names.
C24_HeaderClampedWithAlert ==
    (op = "set_options" /\ fout.temp.length > 1)
    => LET h == fin.header
           last == fout.temp.length - 1
       IN  /\ (h > last) => /\ fout.options.header = last
                            /\ fout.alert.is_open
                            /\ (h >= PreviewCap) => (fout.alert.children = "preview cap")
           /\ (h <= last) => /\ fout.options.header = h
                             /\ ~fout.alert.is_open
           /\ (h <= 1) => (fout.options.columns = set_options(fout.temp, 1 - h).columns)

\* C29: the column names set_options offers for a header value within the
\* preview are the header line read_file takes for that value, line h of the
\* file counted from 1.
C29_PreviewAgreesWithLoad ==
    (op = "set_options" /\ fin.header >= 1 /\ fin.header <= fout.temp.length - 1)
    => /\ fout.options.status = "returned"
       /\ fout.loaded.status = "returned"
       /\ fout.loaded.columns = fin.lines[fin.header]
       /\ fout.options.columns = fout.loaded.columns

(***************************************************************************)
(* Properties of the chart series                                          *)
(***************************************************************************)
\* the drawn value is the value of the table, whatever the cast made of its type
SameValue(a, b) == AsFloat(a) = AsFloat(b)

\* C25: the series drawn for a scatter or bar chart layer has its x values in
\* non-decreasing order (missing values last), and its (x, y) pairs are the
\* rows of the table, each row once.
C25_SeriesSortedInLockStep ==
    (op = "draw_series" /\ fout.status = "drawn")
    => LET n == Len(fin.rows)
       IN  /\ Len(fout.x) = n /\ Len(fout.y) = n
           /\ \A i \in 1..(n - 1) : CellLeq(fout.x[i], fout.x[i + 1])
           /\ \E p \in Permutations(1..n) :
                 \A i \in 1..n : /\ SameValue(fout.x[i], fin.rows[p[i]].x)
                                 /\ SameValue(fout.y[i], fin.rows[p[i]].y)

\* a table whose rows are not in the order of x, with different y values, was drawn
C25_UnsortedTableDrawn ==
    /\ op = "draw_series"
    /\ fout.status = "drawn"
    /\ Len(fin.rows) = 3
    /\ fin.rows[1].x.n > fin.rows[2].x.n
    /\ fin.rows[1].y # fin.rows[2].y
    /\ fin.rows[3].x = fin.rows[1].x

(***************************************************************************)
(* Properties of the load_data callback                                    *)
(***************************************************************************)
\* load_data has run on the request in flight
LoadDataRan == "load_data" \in dpending /\ "load_data" \notin dpending'

\* C26: a load of a readable file under a blank name completes and stores the
\* dataset under a name the store did not hold before, whatever the store
\* holds.
C26_BlankNameLoadTerminates ==
    [][(/\ LoadDataRan
        /\ dreq.trigger = "ed-load-button"
        /\ dreq.dataset_name = ""
        /\ dreq.dp_n_clicks = 0
        /\ read_file(dreq.file, dreq.read_type) = "ok")
       => /\ outcome' = "returned"
          /\ \E n \in (DOMAIN data') \ (DOMAIN data) :
                /\ data'[n] = CustomRecord(dreq.read_type)
                /\ DOMAIN data' = (DOMAIN data) \cup {n}
      ]_vars

\* C27: a request triggered by the aggregate, custom-load or delete button
\* does what that button asks and nothing else, whatever the click count of
\* the dataplatform button: the store it leaves is the store the request
\* leaves when the dataplatform button was never clicked.
C27_OnlyTriggeredOperationRuns ==
    [][(/\ LoadDataRan
        /\ dreq.trigger \in {"data-aggregate-button", "ed-load-button", "ed-delete-button-yes"})
       => LET own == LoadDataResult([dreq EXCEPT !.dp_n_clicks = 0], data)
          IN  /\ outcome' = (IF own.status = "ok" THEN "returned" ELSE own.status)
              /\ data' = (IF own.status = "ok" THEN own.data ELSE data)
      ]_vars

(***************************************************************************)
(* Properties of the stores of a session                                   *)
(***************************************************************************)
\* C28: every layer of the layer store names a dataset that the combined
\* dataset store holds with its table and columns.
C28_LayersReferToDatasets ==
    \A s \in 1..Len(Slots) :
       LET layers == SlotLayers(layer_data, Slots[s])
           all == combine_data_dicts(data, rt_data)
       IN  \A i \in 1..Len(layers) :
              /\ Usable(all, layers[i].selected_dataset)
              /\ "columns" \in DOMAIN all[layers[i].selected_dataset]

(***************************************************************************)
(* Properties of the real-time refresh                                     *)
(***************************************************************************)
\* C30: the refresh timer is enabled only while 'meet je stad' is in the
\* real-time store; a delete request for another dataset leaves the
\* real-time store and the timer as they were; an interval tick on an empty
\* real-time store updates nothing.
C30_TimerFollowsStandardDataset ==
    /\ [](~timer_disabled => StandardDataset \in DOMAIN rt_data)
    /\ [](RealTimeResult(Request("real-time-trigger"), EmptyDict).status = "no_update")
    /\ [][(/\ "load_real_time_data" \in dpending
           /\ "load_real_time_data" \notin dpending'
           /\ dreq.trigger = "ed-delete-button-yes"
           /\ dreq.delete_name # StandardDataset)
          => (rt_data' = rt_data /\ timer_disabled' = timer_disabled)]_vars

\* another dataset was deleted while the timer was running
C30_OtherDatasetDeleted ==
    /\ op = "load_real_time_data"
    /\ outcome = "raised"
    /\ ~timer_disabled
    /\ StandardDataset \in DOMAIN rt_data
    /\ StandardDataset \notin DOMAIN data

====
